---- MODULE Spec2Model ----
(***************************************************************************)
(* Moderation engine of the Telegram group manager bot.                    *)
(*                                                                         *)
(*   handlers/user_management.py  join, leave, captcha, database /warn     *)
(*   handlers/content_filter.py   flood detector, content filter, /block   *)
(*   bot.py                       in-memory /warn, /ban, admin check       *)
(*   models.py                    the tables of the policy store           *)
(*                                                                         *)
(* One action per handler.  A handler's platform calls can fail: whether   *)
(* a call succeeds is an input of the action (banOk, replyOk).  The        *)
(* observable outcome of the handler that ran last is kept in `out'.       *)
(***************************************************************************)
EXTENDS Integers, Sequences, FiniteSets, TLC

VARIABLES
    groups,              \* table groups: the rows per chat_id (unique: none or one)
    group_users,         \* table group_users, rows in insertion order, per user_id
    warnings,            \* table warnings: number of rows per (group, user)
    user_warnings,       \* bot.py: TelegramManagerBot.user_warnings, per user id
    banned,              \* platform: the (chat, user) pairs currently banned
    now,                 \* the clock, in seconds: datetime.now()
    last_reset_time,     \* ContentFilterHandler.last_reset_time
    user_message_count,  \* ContentFilterHandler.user_message_count, per user id
    seen,                \* what an observer of one user's messages has noted
    blocked_words,       \* table blocked_words, rows in insertion order, per chat
    media_settings,      \* table media_settings, rows per chat and media type
    admins,              \* platform: the administrators of each chat, now
    chat_permissions,    \* platform: the default permissions of each chat
    tasks,               \* the handler coroutines in flight, where they stand
    out                  \* what the handler that ran last replied and called

vars == <<groups, group_users, warnings, user_warnings, banned,
          now, last_reset_time, user_message_count, seen,
          blocked_words, media_settings, admins, chat_permissions, tasks, out>>

floodVars == <<now, last_reset_time, user_message_count, seen>>
moderationVars == <<group_users, warnings, user_warnings, banned>>
filterVars == <<blocked_words, media_settings>>
platformVars == <<admins, chat_permissions>>

-----------------------------------------------------------------------------
(* Bounds of the model *)

MaxRows == 2             \* rows of table group_users
MaxWarnRows == 3         \* rows of table warnings
MaxListed == 4           \* entries of one user_warnings list
MaxBanWarns == 4         \* rows of table warnings where bans are studied
MaxNow == 12             \* seconds the clock runs
MaxMsgs == 5             \* messages of the observed user
MaxOther == 1            \* messages another user has in one counting window

(* Program constants *)

MAX_WARNINGS == 3

Chats == {"g1", "g2"}
Users == {"u1", "u2"}
Issuers == {"u1"}        \* who sends the admin commands
NoUser == "nobody"       \* a command that names no target / an unknown id
NoGroup == <<>>          \* no Group row for the chat

Keys == Chats \X Users

-----------------------------------------------------------------------------
(* models.py *)

\* Group(chat_id=..., title=...): every flag takes its column default
\* Config.LANGUAGES: the language codes /language accepts
LANGUAGES == {"en", "es"}

NewGroup ==
    [welcome_enabled |-> TRUE, goodbye_enabled |-> TRUE,
     captcha_enabled |-> FALSE, approval_mode |-> FALSE,
     anti_flood_enabled |-> TRUE, language |-> "en"]

GroupRows ==
    [welcome_enabled : BOOLEAN, goodbye_enabled : BOOLEAN,
     captcha_enabled : BOOLEAN, approval_mode : BOOLEAN,
     anti_flood_enabled : BOOLEAN, language : {"en"}]

\* GroupUser(user_id, group_id, is_approved): warnings_count defaults to 0
NewGroupUser(c, approved) ==
    [group_id |-> c, is_approved |-> approved, warnings_count |-> 0]

\* a Group row added without the lookup
GetOrCreateGroup_blind(c) == [groups EXCEPT ![c] = Append(@, NewGroup)]

\* session.query(Group).filter_by(chat_id=...).first(), created when absent
GetOrCreateGroup(c) ==
    IF groups[c] = NoGroup THEN [groups EXCEPT ![c] = <<NewGroup>>] ELSE groups

\* the row of the group that was inserted last
FirstMatch_latest(rows, c, i) ==
    LET hits == {j \in i .. Len(rows) : rows[j].group_id = c}
    IN  IF hits = {} THEN 0 ELSE CHOOSE j \in hits : \A k \in hits : k <= j

\* Query.first() on the rows of one user: the rows come in insertion order
RECURSIVE FirstMatch(_, _, _)
FirstMatch(rows, c, i) ==
    IF i > Len(rows) THEN 0
    ELSE IF rows[i].group_id = c THEN i
    ELSE FirstMatch(rows, c, i + 1)

\* session.query(GroupUser).filter_by(user_id=u, group_id=c).first()
MemberIdx(u, c) == FirstMatch(group_users[u], c, 1)

\* session.query(GroupUser).filter_by(user_id=u).first()
AnyMemberIdx(u) ==
    IF u \in Users /\ Len(group_users[u]) > 0 THEN 1 ELSE 0

RECURSIVE SumOver(_, _)
SumOver(f, S) ==
    IF S = {} THEN 0
    ELSE LET x == CHOOSE y \in S : TRUE IN f[x] + SumOver(f, S \ {x})

TotalWarningRows == SumOver(warnings, Keys)

TotalMemberRows == SumOver([u \in Users |-> Len(group_users[u])], Users)

-----------------------------------------------------------------------------
(* The outcome of one handled event *)

NoOut ==
    [handler |-> "none", chat |-> "none", actor |-> "none", target |-> "none",
     replies |-> <<>>,      \* the replies sent, in order
     count |-> 0,           \* warning count the handler computed
     left |-> 0,            \* warnings left before ban, as replied
     ban |-> "none",        \* ban_chat_member: none | ok | refused
     rebanned |-> FALSE,    \* the ban was accepted for a pair banned already
     until |-> "none",      \* until_date passed with the ban
     error |-> "none",      \* none | caught | escaped (left the handler)
     mute |-> "none",       \* restrict_chat_member: none | ok | refused | not_called
     decision |-> "none",   \* the verdict: warn | ban | approve | delete | allow | flood | normal
     reason |-> "none",     \* the rule a deletion is attributed to
     payload |-> "none",    \* user id encoded in a button the reply carries
     text |-> <<>>,         \* the message text, or the word of a /block
     regex |-> FALSE,       \* /block carried --regex
     media |-> "none",      \* the media type a media message was taken for
     admin |-> FALSE,       \* the platform lists the sender as administrator
     promote |-> "none",    \* promote_chat_member: none | ok | refused
     permissions |-> "none", \* set_chat_permissions: none | ok | refused
     store |-> "ok",        \* the store: ok | query_failed | commit_failed
     calls |-> <<>>,        \* the calls that change the platform, in order
     notice |-> "none",     \* the notice of a deletion: none | deleted | gone
     status |-> "none"]     \* what is_user_admin's lookup of the sender gave

Result(h, c, a, t) ==
    [NoOut EXCEPT !.handler = h, !.chat = c, !.actor = a, !.target = t]

-----------------------------------------------------------------------------
(* bot.py: is_user_admin *)

MemberStatus == {"creator", "administrator", "member", "lookup_failed"}

\* a check that lets the sender pass when the lookup raises
is_user_admin_open(status) ==
    status \in {"administrator", "creator", "lookup_failed"}

\* a check that takes every member the lookup finds for an administrator
is_user_admin_any(status) == status # "lookup_failed"

\* chat.get_member(user.id).status in [ADMINISTRATOR, OWNER]; False on error
is_user_admin(status) == status \in {"administrator", "creator"}

-----------------------------------------------------------------------------
(* handlers/user_management.py *)

\* welcome_user, for one member of update.message.new_chat_members
welcome_user(c, u, replyOk) ==
    LET gs == GetOrCreateGroup(c)
        g == gs[c][1]
        prompt == IF g.captcha_enabled /\ ~g.approval_mode THEN "captcha_prompt"
                  ELSE IF g.approval_mode THEN "approval_pending"
                  ELSE "welcome"
        r == Result("welcome_user", c, u, u)
    IN  /\ groups' = gs
        /\ IF g.welcome_enabled /\ ~replyOk
           THEN \* reply_text raises: caught at line 55, the row is never committed
                /\ group_users' = group_users
                /\ out' = [r EXCEPT !.error = "caught"]
           ELSE /\ group_users' =
                     [group_users EXCEPT
                        ![u] = Append(@, NewGroupUser(c, ~g.approval_mode))]
                /\ out' = [r EXCEPT
                             !.replies = IF g.welcome_enabled
                                         THEN <<prompt>> ELSE <<>>,
                             !.payload = IF prompt = "captcha_prompt"
                                            /\ g.welcome_enabled
                                         THEN u ELSE "none"]
        /\ UNCHANGED <<warnings, user_warnings, banned>>

\* goodbye_user
goodbye_user(c, u, replyOk) ==
    LET said == groups[c] # NoGroup /\ groups[c][1].goodbye_enabled
        r == Result("goodbye_user", c, u, u)
    IN  /\ out' = IF ~said THEN r
                  ELSE IF replyOk THEN [r EXCEPT !.replies = <<"goodbye">>]
                  ELSE [r EXCEPT !.error = "caught"]
        /\ UNCHANGED <<groups, group_users, warnings, user_warnings, banned>>

\* handle_captcha: k pressed the button in chat c, the payload is captcha_<t>
handle_captcha(c, k, t, replyOk) ==
    LET i == AnyMemberIdx(t)
        r == Result("handle_captcha", c, k, t)
    IN  /\ group_users' =
             IF i # 0
             THEN [group_users EXCEPT ![t][i].is_approved = TRUE]
             ELSE group_users
        /\ out' = IF ~replyOk THEN [r EXCEPT !.error = "caught"]
                  ELSE IF i # 0
                  THEN [r EXCEPT !.replies = <<"verified">>,
                                 !.decision = "approve"]
                  ELSE [r EXCEPT !.replies = <<"user_not_found">>]
        /\ UNCHANGED <<groups, warnings, user_warnings, banned>>

\* warn_user: admin a replies /warn to a message of t in chat c;
\* admin_ids is what update.effective_chat.get_administrators() returns
warn_user(c, a, t, admin_ids, banOk, replyOk) ==
    LET r == Result("warn_user", c, a, t)
        gs == GetOrCreateGroup(c)
        i == IF t \in Users THEN MemberIdx(t, c) ELSE 0
        n == IF i # 0 THEN group_users[t][i].warnings_count + 1 ELSE 0
        warnings_left == MAX_WARNINGS - n
        commit == /\ warnings' = [warnings EXCEPT ![<<c, t>>] = @ + 1]
                  /\ group_users' =
                       IF i # 0
                       THEN [group_users EXCEPT ![t][i].warnings_count = n]
                       ELSE group_users
        rollback == UNCHANGED <<warnings, group_users>>
    IN  /\ UNCHANGED user_warnings
        /\ IF a \notin admin_ids
           THEN /\ out' = IF replyOk THEN [r EXCEPT !.replies = <<"only_admins">>]
                          ELSE [r EXCEPT !.error = "escaped"]
                /\ UNCHANGED <<groups, group_users, warnings, banned>>
           ELSE IF t = NoUser
           THEN /\ out' = IF replyOk THEN [r EXCEPT !.replies = <<"reply_to_user">>]
                          ELSE [r EXCEPT !.error = "caught"]
                /\ UNCHANGED <<groups, group_users, warnings, banned>>
           ELSE /\ groups' = gs
                /\ IF i # 0 /\ n >= MAX_WARNINGS
                   THEN \* auto-ban; whatever it raises is caught at line 144
                        /\ commit
                        /\ banned' = IF banOk THEN banned \cup {<<c, t>>}
                                     ELSE banned
                        /\ out' = [r EXCEPT
                                     !.count = n, !.left = warnings_left,
                                     !.decision = "ban",
                                     !.ban = IF banOk THEN "ok" ELSE "refused",
                                     !.calls = <<"ban_chat_member">>,
                                     !.rebanned = banOk /\ <<c, t>> \in banned,
                                     !.replies = IF banOk /\ replyOk
                                                 THEN <<"banned">> ELSE <<>>,
                                     !.error = IF banOk /\ replyOk
                                               THEN "none" ELSE "caught"]
                   ELSE IF ~replyOk
                   THEN \* reply_text raises: caught at line 158, no commit
                        /\ rollback
                        /\ UNCHANGED banned
                        /\ out' = [r EXCEPT !.error = "caught"]
                   ELSE /\ commit
                        /\ UNCHANGED banned
                        /\ out' = IF i # 0
                                  THEN [r EXCEPT
                                          !.count = n, !.left = warnings_left,
                                          !.decision = "warn",
                                          !.replies = <<"warning_issued">>]
                                  ELSE [r EXCEPT
                                          !.replies = <<"user_not_found">>]

-----------------------------------------------------------------------------
(* bot.py *)

\* warn_command: the in-memory /warn; status is what chat.get_member returns
\* for the invoking user, replyOk / reply2Ok whether the two replies get out
warn_command(c, a, t, status, banOk, replyOk, reply2Ok) ==
    LET r == [Result("warn_command", c, a, t) EXCEPT !.status = status]
        warning_count == user_warnings[t] + 1
    IN  /\ UNCHANGED <<groups, group_users, warnings>>
        /\ IF ~is_user_admin(status)
           THEN /\ out' = IF replyOk THEN [r EXCEPT !.replies = <<"need_admin">>]
                          ELSE [r EXCEPT !.error = "caught"]
                /\ UNCHANGED <<user_warnings, banned>>
           ELSE IF t = NoUser
           THEN /\ out' = IF replyOk THEN [r EXCEPT !.replies = <<"usage">>]
                          ELSE [r EXCEPT !.error = "caught"]
                /\ UNCHANGED <<user_warnings, banned>>
           ELSE /\ IF ~replyOk
                   THEN \* the warning is stored, the reply raises: line 379
                        /\ user_warnings' =
                             [user_warnings EXCEPT ![t] = warning_count]
                        /\ UNCHANGED banned
                        /\ out' = [r EXCEPT !.count = warning_count,
                                            !.error = "caught"]
                   ELSE IF warning_count >= MAX_WARNINGS
                   THEN /\ banned' = IF banOk THEN banned \cup {<<c, t>>}
                                     ELSE banned
                        /\ user_warnings' =
                             [user_warnings EXCEPT
                                ![t] = IF banOk /\ reply2Ok THEN 0
                                       ELSE warning_count]
                        /\ out' = [r EXCEPT
                                     !.count = warning_count,
                                     !.decision = "ban",
                                     !.ban = IF banOk THEN "ok" ELSE "refused",
                                     !.calls = <<"ban_chat_member">>,
                                     !.rebanned = banOk /\ <<c, t>> \in banned,
                                     !.replies = IF banOk /\ reply2Ok
                                                 THEN <<"warning_issued", "banned">>
                                                 ELSE <<"warning_issued">>,
                                     !.error = IF banOk /\ reply2Ok
                                               THEN "none" ELSE "caught"]
                   ELSE /\ user_warnings' =
                             [user_warnings EXCEPT ![t] = warning_count]
                        /\ UNCHANGED banned
                        /\ out' = [r EXCEPT !.count = warning_count,
                                            !.decision = "warn",
                                            !.replies = <<"warning_issued">>]

\* admin_command: /admin, the panel with the six buttons
admin_command(c, a, status, replyOk) ==
    LET r == [Result("admin_command", c, a, NoUser) EXCEPT !.status = status]
    IN  /\ UNCHANGED <<groups, group_users, warnings, user_warnings, banned>>
        /\ out' = IF ~replyOk THEN [r EXCEPT !.error = "caught"]
                  ELSE IF ~is_user_admin(status)
                  THEN [r EXCEPT !.replies = <<"need_admin">>]
                  ELSE [r EXCEPT !.replies = <<"admin_panel">>]

\* ban_command with a slip: a ban of a user who is banned already is
\* treated as a failed call
ban_command_escalating(c, a, t, status, banOk, replyOk) ==
    LET r == [Result("ban_command", c, a, t) EXCEPT !.status = status]
        ok == banOk /\ <<c, t>> \notin banned
    IN  /\ UNCHANGED <<groups, group_users, warnings, user_warnings>>
        /\ IF ~is_user_admin(status)
           THEN /\ out' = IF replyOk THEN [r EXCEPT !.replies = <<"need_admin">>]
                          ELSE [r EXCEPT !.error = "escaped"]
                /\ UNCHANGED banned
           ELSE IF t = NoUser
           THEN /\ out' = IF replyOk THEN [r EXCEPT !.replies = <<"usage">>]
                          ELSE [r EXCEPT !.error = "escaped"]
                /\ UNCHANGED banned
           ELSE /\ banned' = IF banOk THEN banned \cup {<<c, t>>} ELSE banned
                /\ out' = [r EXCEPT
                             !.decision = "ban",
                             !.until = "now+BAN_DURATION",
                             !.ban = IF banOk THEN "ok" ELSE "refused",
                             !.calls = <<"ban_chat_member">>,
                             !.rebanned = banOk /\ <<c, t>> \in banned,
                             !.replies = IF ~replyOk THEN <<>>
                                         ELSE IF ok THEN <<"banned">>
                                         ELSE <<"ban_failed">>,
                             !.error = IF ~replyOk THEN "escaped"
                                       ELSE IF ok THEN "none" ELSE "caught"]

\* ban_command with a retry: a refused ban is sent a second time
ban_command_retrying(c, a, t, status, banOk, replyOk) ==
    LET r == [Result("ban_command", c, a, t) EXCEPT !.status = status]
    IN  /\ UNCHANGED <<groups, group_users, warnings, user_warnings>>
        /\ IF ~is_user_admin(status)
           THEN /\ out' = IF replyOk THEN [r EXCEPT !.replies = <<"need_admin">>]
                          ELSE [r EXCEPT !.error = "escaped"]
                /\ UNCHANGED banned
           ELSE IF t = NoUser
           THEN /\ out' = IF replyOk THEN [r EXCEPT !.replies = <<"usage">>]
                          ELSE [r EXCEPT !.error = "escaped"]
                /\ UNCHANGED banned
           ELSE /\ banned' = IF banOk THEN banned \cup {<<c, t>>} ELSE banned
                /\ out' = [r EXCEPT
                             !.decision = "ban",
                             !.until = "now+BAN_DURATION",
                             !.ban = IF banOk THEN "ok" ELSE "refused",
                             !.calls = IF banOk THEN <<"ban_chat_member">>
                                       ELSE <<"ban_chat_member",
                                              "ban_chat_member">>,
                             !.rebanned = banOk /\ <<c, t>> \in banned,
                             !.replies = IF ~replyOk THEN <<>>
                                         ELSE IF banOk THEN <<"banned">>
                                         ELSE <<"ban_failed">>,
                             !.error = IF ~replyOk THEN "escaped"
                                       ELSE IF banOk THEN "none" ELSE "caught"]

\* ban_command: /ban; a refused call raises TelegramError (line 287)
ban_command(c, a, t, status, banOk, replyOk) ==
    LET r == [Result("ban_command", c, a, t) EXCEPT !.status = status]
    IN  /\ UNCHANGED <<groups, group_users, warnings, user_warnings>>
        /\ IF ~is_user_admin(status)
           THEN /\ out' = IF replyOk THEN [r EXCEPT !.replies = <<"need_admin">>]
                          ELSE [r EXCEPT !.error = "escaped"]
                /\ UNCHANGED banned
           ELSE IF t = NoUser
           THEN /\ out' = IF replyOk THEN [r EXCEPT !.replies = <<"usage">>]
                          ELSE [r EXCEPT !.error = "escaped"]
                /\ UNCHANGED banned
           ELSE /\ banned' = IF banOk THEN banned \cup {<<c, t>>} ELSE banned
                /\ out' = [r EXCEPT
                             !.decision = "ban",
                             !.until = "now+BAN_DURATION",
                             !.ban = IF banOk THEN "ok" ELSE "refused",
                             !.calls = <<"ban_chat_member">>,
                             !.rebanned = banOk /\ <<c, t>> \in banned,
                             !.replies = IF ~replyOk THEN <<>>
                                         ELSE IF banOk THEN <<"banned">>
                                         ELSE <<"ban_failed">>,
                             !.error = IF ~replyOk THEN "escaped"
                                       ELSE IF banOk THEN "none" ELSE "caught"]

\* mute_command: /mute; restrict_chat_member until now + MUTE_DURATION
mute_command(c, a, t, status, muteOk, replyOk) ==
    LET r == [Result("mute_command", c, a, t) EXCEPT !.status = status]
    IN  /\ UNCHANGED <<groups, group_users, warnings, user_warnings, banned>>
        /\ out' = IF ~is_user_admin(status)
                  THEN IF replyOk THEN [r EXCEPT !.replies = <<"need_admin">>]
                       ELSE [r EXCEPT !.error = "escaped"]
                  ELSE IF t = NoUser
                  THEN IF replyOk THEN [r EXCEPT !.replies = <<"usage">>]
                       ELSE [r EXCEPT !.error = "escaped"]
                  ELSE [r EXCEPT
                          !.decision = "mute",
                          !.until = "now+MUTE_DURATION",
                          !.mute = IF muteOk THEN "ok" ELSE "refused",
                          !.calls = <<"restrict_chat_member">>,
                          !.replies = IF ~replyOk THEN <<>>
                                      ELSE IF muteOk THEN <<"muted">>
                                      ELSE <<"mute_failed">>,
                          !.error = IF ~replyOk THEN "escaped"
                                    ELSE IF muteOk THEN "none" ELSE "caught"]

\* promote_command: /promote; an accepted promote_chat_member puts the
\* target on the platform's administrator list
promote_command(c, a, t, status, promoteOk, replyOk) ==
    LET r == [Result("promote_command", c, a, t) EXCEPT !.status = status]
    IN  /\ UNCHANGED <<groups, group_users, warnings, user_warnings, banned>>
        /\ IF ~is_user_admin(status)
           THEN /\ out' = IF replyOk THEN [r EXCEPT !.replies = <<"need_admin">>]
                          ELSE [r EXCEPT !.error = "escaped"]
                /\ UNCHANGED admins
           ELSE IF t = NoUser
           THEN /\ out' = IF replyOk THEN [r EXCEPT !.replies = <<"usage">>]
                          ELSE [r EXCEPT !.error = "escaped"]
                /\ UNCHANGED admins
           ELSE /\ admins' = IF promoteOk
                             THEN [admins EXCEPT ![c] = @ \cup {t}] ELSE admins
                /\ out' = [r EXCEPT
                             !.decision = "promote",
                             !.promote = IF promoteOk THEN "ok" ELSE "refused",
                             !.calls = <<"promote_chat_member">>,
                             !.replies = IF ~replyOk THEN <<>>
                                         ELSE IF promoteOk THEN <<"promoted">>
                                         ELSE <<"promote_failed">>,
                             !.error = IF ~replyOk THEN "escaped"
                                       ELSE IF promoteOk THEN "none" ELSE "caught"]

-----------------------------------------------------------------------------
(* handlers/content_filter.py: the flood detector *)

FLOOD_LIMIT == 5
FLOOD_WINDOW == 10

\* content_filter.py uses ChatPermissions (line 48) and imports only Update
\* from telegram (line 3): evaluating the call's arguments raises NameError
ChatPermissionsImported == FALSE

\* timedelta.days of a difference d >= 0 of two datetimes
Seconds_days(d) == d \div 86400

\* timedelta.seconds of a difference d >= 0 of two datetimes: the days are
\* a separate field
Seconds(d) == d % 86400

NoCounts == [u \in Users |-> <<>>]

\* check_flood: a message of u in chat c at second `now'
check_flood(c, u, muteOk, replyOk) ==
    LET current_time == now
        expired == Seconds(current_time - last_reset_time) > FLOOD_WINDOW
        counts == IF expired THEN NoCounts ELSE user_message_count
        entry == IF counts[u] = <<>>
                 THEN [count |-> 0, first_message_time |-> current_time]
                 ELSE counts[u][1]
        user_data == [entry EXCEPT !.count = @ + 1]
        enabled == groups[c] # NoGroup /\ groups[c][1].anti_flood_enabled
        time_diff == Seconds(current_time - user_data.first_message_time)
        flooding == /\ enabled
                    /\ user_data.count >= FLOOD_LIMIT
                    /\ time_diff <= FLOOD_WINDOW
        muted == flooding /\ ChatPermissionsImported /\ muteOk
        r == Result("check_flood", c, u, u)
    IN  /\ last_reset_time' = IF expired THEN current_time ELSE last_reset_time
        /\ user_message_count' =
             [counts EXCEPT
                ![u] = IF muted /\ replyOk
                       THEN <<[count |-> 0, first_message_time |-> current_time]>>
                       ELSE <<user_data>>]
        /\ out' = [r EXCEPT
                     !.count = user_data.count,
                     !.decision = IF flooding THEN "flood" ELSE "normal",
                     !.mute = IF ~flooding THEN "none"
                              ELSE IF ~ChatPermissionsImported THEN "not_called"
                              ELSE IF muteOk THEN "ok" ELSE "refused",
                     !.calls = IF flooding /\ ChatPermissionsImported
                               THEN <<"restrict_chat_member">> ELSE <<>>,
                     !.until = IF muted THEN "now+30min" ELSE "none",
                     !.replies = IF muted /\ replyOk THEN <<"muted">> ELSE <<>>,
                     !.error = IF flooding /\ ~(muted /\ replyOk)
                               THEN "caught" ELSE "none"]

-----------------------------------------------------------------------------
(* Text.  A text is a sequence of one-character strings. *)

UpperCase ==
    <<"A", "B", "C", "D", "E", "F", "G", "H", "I", "J", "K", "L", "M", "N",
      "O", "P", "Q", "R", "S", "T", "U", "V", "W", "X", "Y", "Z">>

LowerCase ==
    <<"a", "b", "c", "d", "e", "f", "g", "h", "i", "j", "k", "l", "m", "n",
      "o", "p", "q", "r", "s", "t", "u", "v", "w", "x", "y", "z">>

LowerOf ==
    [ch \in {UpperCase[i] : i \in 1 .. Len(UpperCase)} |->
       LowerCase[CHOOSE i \in 1 .. Len(UpperCase) : UpperCase[i] = ch]]

\* str.lower() on one character
Lower(ch) == IF ch \in DOMAIN LowerOf THEN LowerOf[ch] ELSE ch

\* str.lower()
LowerText(t) == [i \in 1 .. Len(t) |-> Lower(t[i])]

\* w in t
Contains(t, w) ==
    \E i \in 0 .. Len(t) - Len(w) : SubSeq(t, i + 1, i + Len(w)) = w

\* ' '.join(args) of the words and patterns registered here
Word_Bad ==
    <<"b", "a", "d", "w", "o", "r", "d", "1">>

Word_Bad2 ==
    <<"b", "a", "d", "w", "o", "r", "d", "2">>

Word_Inappropriate ==
    <<"i", "n", "a", "p", "p", "r", "o", "p", "r", "i", "a", "t", "e">>

Word_BadCaps ==
    <<"B", "a", "d", "W", "o", "r", "d", "1">>

Pattern_Spam ==
    <<"^", "s", "p", "a", "m", ".", "*">>

Pattern_Unclosed ==
    <<"(", "u", "n", "c", "l", "o", "s", "e", "d">>

Link_Spam ==
    <<"s", "p", "a", "m", ".", "c", "o", "m">>

Scheme_Http ==
    <<"h", "t", "t", "p", ":", "/", "/">>

Scheme_Https ==
    <<"h", "t", "t", "p", "s", ":", "/", "/">>

\* message texts
Text_Both ==
    <<"v", "i", "s", "i", "t", " ", "s", "p", "a", "m", ".", "c", "o", "m",
      " ", "n", "o", "w", " ", "b", "a", "d", "w", "o", "r", "d", "1">>

Text_UrlAndWord ==
    <<"s", "e", "e", " ", "h", "t", "t", "p", ":", "/", "/", "s", "p", "a",
      "m", ".", "c", "o", "m", " ", "b", "a", "d", "w", "o", "r", "d", "1">>

Text_Spammy ==
    <<"S", "p", "a", "m", "m", "y", " ", "t", "e", "x", "t">>

Text_MySpam ==
    <<"m", "y", " ", "s", "p", "a", "m">>

Text_Hello ==
    <<"h", "e", "l", "l", "o">>

-----------------------------------------------------------------------------
(* re: patterns of literals, ".", "*" after one character, "^" and         *)
(* parentheses.  Compiles says whether re.compile accepts the pattern;     *)
(* ReSearch is re.search with re.IGNORECASE on patterns without groups.    *)

\* every ")" closes an open "(" and no "(" is left open
RECURSIVE Balanced(_, _, _)
Balanced(p, i, depth) ==
    IF i > Len(p) THEN depth = 0
    ELSE IF p[i] = "(" THEN Balanced(p, i + 1, depth + 1)
    ELSE IF p[i] = ")" THEN depth > 0 /\ Balanced(p, i + 1, depth - 1)
    ELSE Balanced(p, i + 1, depth)

\* every "*" has something to repeat, and repeats it once
Repeatable(p) ==
    \A i \in 1 .. Len(p) :
        p[i] = "*" => (i > 1 /\ p[i - 1] \notin {"*", "(", "^"})

\* re.compile(p) raises no re.error
Compiles(p) == Balanced(p, 1, 0) /\ Repeatable(p)

CharMatches(pc, tc) == pc = "." \/ Lower(pc) = Lower(tc)

\* the pattern from position i on matches the text from position j on
RECURSIVE MatchHere(_, _, _, _)
MatchHere(p, i, t, j) ==
    IF i > Len(p) THEN TRUE
    ELSE IF p[i] = "^" THEN j = 1 /\ MatchHere(p, i + 1, t, j)
    ELSE IF i < Len(p) /\ p[i + 1] = "*"
    THEN \E k \in j .. Len(t) + 1 :
            /\ \A m \in j .. k - 1 : CharMatches(p[i], t[m])
            /\ MatchHere(p, i + 2, t, k)
    ELSE /\ j <= Len(t)
         /\ CharMatches(p[i], t[j])
         /\ MatchHere(p, i + 1, t, j + 1)

\* re.search(p, t, re.IGNORECASE) is not None
ReSearch(p, t) == \E j \in 1 .. Len(t) + 1 : MatchHere(p, 1, t, j)

-----------------------------------------------------------------------------
(* handlers/content_filter.py: the content filter *)

\* Config.BANNED_LINKS
BANNED_LINKS == {Link_Spam}

\* BlockedWord(group_id, word, is_regex)
NewBlockedWord(word, is_regex) == [word |-> word, is_regex |-> is_regex]

\* MediaSetting.media_type, as filter_media names the types
MediaTypes == {"photo", "video", "document", "audio", "voice", "sticker", "gif"}

\* the attributes of a message that filter_media tests, in its order
MediaFields ==
    <<"photo", "video", "document", "audio", "voice", "sticker", "animation">>

\* the for loop over the blocked words, on the lowered message text: the
\* first row that matches ends it ("hit"); a pattern that re.search cannot
\* compile raises and ends it too ("error")
RECURSIVE ScanBlocked(_, _, _)
ScanBlocked(rows, i, message_text) ==
    IF i > Len(rows) THEN "none"
    ELSE IF rows[i].is_regex
    THEN IF ~Compiles(rows[i].word) THEN "error"
         ELSE IF ReSearch(rows[i].word, message_text) THEN "hit"
         ELSE ScanBlocked(rows, i + 1, message_text)
    ELSE IF Contains(message_text, LowerText(rows[i].word)) THEN "hit"
    ELSE ScanBlocked(rows, i + 1, message_text)

\* any(link in message_text for link in Config.BANNED_LINKS)
HasBannedLink(message_text) == \E l \in BANNED_LINKS : Contains(message_text, l)

\* the rule filter_content deletes a text for: the blocked words of the
\* group first, then the banned links; "raised" when a pattern raised
ContentRule(c, text) ==
    LET message_text == LowerText(text)
        found == ScanBlocked(blocked_words[c], 1, message_text)
    IN  IF text = <<>> \/ groups[c] = NoGroup THEN "none"
        ELSE IF found = "hit" THEN "blocked_word"
        ELSE IF found = "error" THEN "raised"
        ELSE IF HasBannedLink(message_text) THEN "banned_link"
        ELSE "none"

\* filter_content: the text message `text' of u in chat c.  The handler
\* asks nobody whether u is an administrator; admin_ids is what the
\* platform would have answered
filter_content(c, u, text, admin_ids, deleteOk, replyOk) ==
    LET rule == ContentRule(c, text)
        deletes == rule \in {"blocked_word", "banned_link"}
        r == Result("filter_content", c, u, u)
    IN  /\ UNCHANGED <<groups, filterVars>>
        /\ out' = [r EXCEPT
                     !.text = text,
                     !.admin = u \in admin_ids,
                     !.decision = IF deletes THEN "delete" ELSE "allow",
                     !.calls = IF deletes THEN <<"delete_message">> ELSE <<>>,
                     !.reason = IF deletes THEN rule ELSE "none",
                     !.replies = IF ~(deletes /\ deleteOk /\ replyOk) THEN <<>>
                                 ELSE IF rule = "blocked_word"
                                 THEN <<"blocked_content">>
                                 ELSE <<"banned_links">>,
                     !.error = IF rule = "raised"
                                  \/ (deletes /\ ~(deleteOk /\ replyOk))
                               THEN "caught" ELSE "none"]

\* the if/elif chain over the message's attributes
RECURSIVE FirstField(_, _)
FirstField(fields, i) ==
    IF i > Len(MediaFields) THEN "none"
    ELSE IF MediaFields[i] \in fields
    THEN IF MediaFields[i] = "animation" THEN "gif" ELSE MediaFields[i]
    ELSE FirstField(fields, i + 1)

\* filter_media: a message of u in chat c that carries `fields'
filter_media(c, u, fields, admin_ids, adminsOk, deleteOk, replyOk) ==
    LET is_admin == u \in admin_ids
        media_type == FirstField(fields, 1)
        known == groups[c] # NoGroup /\ adminsOk
        rows == IF media_type = "none" THEN <<>> ELSE media_settings[c][media_type]
        deletes == /\ known
                   /\ rows # <<>>
                   /\ (~rows[1].allowed \/ (rows[1].admin_only /\ ~is_admin))
        r == Result("filter_media", c, u, u)
    IN  /\ UNCHANGED <<groups, filterVars>>
        /\ out' = [r EXCEPT
                     !.admin = is_admin,
                     !.media = IF known THEN media_type ELSE "none",
                     !.decision = IF deletes THEN "delete" ELSE "allow",
                     !.calls = IF deletes THEN <<"delete_message">> ELSE <<>>,
                     !.reason = IF deletes THEN "media" ELSE "none",
                     !.replies = IF deletes /\ deleteOk /\ replyOk
                                 THEN <<"media_not_allowed">> ELSE <<>>,
                     !.error = IF (groups[c] # NoGroup /\ ~adminsOk)
                                  \/ (deletes /\ ~(deleteOk /\ replyOk))
                               THEN "caught" ELSE "none"]

\* /block without the validation: every pattern is taken
RejectsPattern_never(word, regex) == FALSE

\* the try/except around re.compile(word), entered with --regex only
RejectsPattern(word, regex) == regex /\ ~Compiles(word)

\* add_blocked_word without the query for an existing row
add_blocked_word_unchecked(c, a, word, regex, admin_ids, adminsOk, replyOk) ==
    LET r == [Result("add_blocked_word", c, a, a) EXCEPT
                !.text = word, !.regex = regex, !.admin = a \in admin_ids]
        rows == blocked_words[c]
        said(text) == [r EXCEPT !.replies = IF replyOk THEN <<text>> ELSE <<>>,
                                !.error = IF replyOk THEN "none" ELSE "escaped"]
    IN  /\ UNCHANGED media_settings
        /\ IF ~adminsOk
           THEN /\ out' = [r EXCEPT !.admin = FALSE, !.error = "escaped"]
                /\ UNCHANGED <<groups, blocked_words>>
           ELSE IF a \notin admin_ids
           THEN /\ out' = said("admins_only")
                /\ UNCHANGED <<groups, blocked_words>>
           ELSE IF word = <<>> /\ ~regex
           THEN /\ out' = said("usage")
                /\ UNCHANGED <<groups, blocked_words>>
           ELSE /\ groups' = GetOrCreateGroup(c)
                /\ IF RejectsPattern(word, regex)
                   THEN /\ out' = said("invalid_regex")
                        /\ UNCHANGED blocked_words
                   ELSE /\ blocked_words' =
                             [blocked_words EXCEPT
                                ![c] = Append(rows, NewBlockedWord(word, regex))]
                        /\ out' = said("added")

\* add_blocked_word: /block <word> [--regex] of a in chat c.  `word' is
\* the arguments without --regex, joined; no argument at all is the empty
\* word without --regex.  A reply that fails inside the try block leads
\* to the error reply of the except block, which fails as well.
add_blocked_word(c, a, word, regex, admin_ids, adminsOk, replyOk) ==
    LET r == [Result("add_blocked_word", c, a, a) EXCEPT
                !.text = word, !.regex = regex, !.admin = a \in admin_ids]
        rows == blocked_words[c]
        said(text) == [r EXCEPT !.replies = IF replyOk THEN <<text>> ELSE <<>>,
                                !.error = IF replyOk THEN "none" ELSE "escaped"]
    IN  /\ UNCHANGED media_settings
        /\ IF ~adminsOk
           THEN /\ out' = [r EXCEPT !.admin = FALSE, !.error = "escaped"]
                /\ UNCHANGED <<groups, blocked_words>>
           ELSE IF a \notin admin_ids
           THEN /\ out' = said("admins_only")
                /\ UNCHANGED <<groups, blocked_words>>
           ELSE IF word = <<>> /\ ~regex
           THEN /\ out' = said("usage")
                /\ UNCHANGED <<groups, blocked_words>>
           ELSE /\ groups' = GetOrCreateGroup(c)
                /\ IF RejectsPattern(word, regex)
                   THEN /\ out' = said("invalid_regex")
                        /\ UNCHANGED blocked_words
                   ELSE IF \E i \in 1 .. Len(rows) : rows[i].word = word
                   THEN /\ out' = said("already_blocked")
                        /\ UNCHANGED blocked_words
                   ELSE /\ blocked_words' =
                             [blocked_words EXCEPT
                                ![c] = Append(rows, NewBlockedWord(word, regex))]
                        /\ out' = said("added")

-----------------------------------------------------------------------------
(* handlers/utilities.py: /tagall, /close, /open, /language *)

NoLanguage == "none"     \* /language without an argument

\* the reply of a handler whose body runs in try / except Exception: a
\* reply that fails inside the try is answered with the error reply, which
\* fails as well and leaves the handler
Answered(r, failed, good, bad, replyOk) ==
    [r EXCEPT !.replies = IF ~replyOk THEN <<>>
                          ELSE IF failed THEN <<bad>> ELSE <<good>>,
              !.error = IF ~replyOk THEN "escaped"
                        ELSE IF failed THEN "caught" ELSE "none"]

\* what precedes the try: the administrator list is fetched and the sender
\* looked up in it
Refused(r, a, admin_ids, adminsOk, replyOk) ==
    IF ~adminsOk THEN [r EXCEPT !.error = "escaped"]
    ELSE IF replyOk THEN [r EXCEPT !.replies = <<"only_admins">>]
    ELSE [r EXCEPT !.error = "escaped"]

\* tag_all: the announcement; get_member_count can fail
tag_all(c, a, admin_ids, adminsOk, countOk, replyOk) ==
    LET r == Result("tag_all", c, a, NoUser)
    IN  /\ UNCHANGED <<groups, chat_permissions>>
        /\ out' = IF ~adminsOk \/ a \notin admin_ids
                  THEN Refused(r, a, admin_ids, adminsOk, replyOk)
                  ELSE Answered([r EXCEPT !.admin = TRUE], ~countOk,
                                "tagging_all", "error_tagging", replyOk)

\* close_group and open_group: set_chat_permissions with the sending
\* permissions all off, or on
set_permissions(h, to, good, bad, c, a, admin_ids, adminsOk, setOk, replyOk) ==
    LET r == Result(h, c, a, NoUser)
    IN  /\ UNCHANGED groups
        /\ IF ~adminsOk \/ a \notin admin_ids
           THEN /\ out' = Refused(r, a, admin_ids, adminsOk, replyOk)
                /\ UNCHANGED chat_permissions
           ELSE /\ chat_permissions' =
                     IF setOk THEN [chat_permissions EXCEPT ![c] = to]
                     ELSE chat_permissions
                /\ out' = Answered([r EXCEPT
                                      !.admin = TRUE,
                                      !.calls = <<"set_chat_permissions">>,
                                      !.permissions = IF setOk THEN "ok"
                                                      ELSE "refused"],
                                   ~setOk, good, bad, replyOk)

close_group(c, a, admin_ids, adminsOk, setOk, replyOk) ==
    set_permissions("close_group", "closed", "group_closed", "error_closing",
                    c, a, admin_ids, adminsOk, setOk, replyOk)

open_group(c, a, admin_ids, adminsOk, setOk, replyOk) ==
    set_permissions("open_group", "open", "group_opened", "error_opening",
                    c, a, admin_ids, adminsOk, setOk, replyOk)

\* set_language: the group row is created when missing, its language set
\* and committed; a failed commit leaves the store as it was
set_language(c, a, language, admin_ids, adminsOk, commitOk, replyOk) ==
    LET r == Result("set_language", c, a, NoUser)
        group == GetOrCreateGroup(c)[c][1]
    IN  /\ UNCHANGED chat_permissions
        /\ IF ~adminsOk \/ a \notin admin_ids
           THEN /\ out' = Refused(r, a, admin_ids, adminsOk, replyOk)
                /\ UNCHANGED groups
           ELSE IF language \notin LANGUAGES
           THEN /\ out' = IF replyOk
                          THEN [r EXCEPT !.admin = TRUE,
                                         !.replies = <<"available_languages">>]
                          ELSE [r EXCEPT !.admin = TRUE, !.error = "escaped"]
                /\ UNCHANGED groups
           ELSE /\ groups' = IF commitOk
                             THEN [groups EXCEPT
                                     ![c] = <<[group EXCEPT !.language = language]>>]
                             ELSE groups
                /\ out' = Answered([r EXCEPT !.admin = TRUE,
                                             !.decision = language],
                                   ~commitOk, "language_set",
                                   "error_setting_language", replyOk)

-----------------------------------------------------------------------------
(* bot.py: message_handler, the auto-moderation of text messages *)

AUTO_MODERATION_ENABLED == TRUE
FILTER_LINKS == TRUE
FILTER_BAD_WORDS == TRUE

BAD_WORDS == {Word_Bad, Word_Bad2, Word_Inappropriate}

\* the characters of the model's texts that the class after "http://"
\* in link_pattern accepts: all but the space
LinkChars ==
    {UpperCase[i] : i \in 1 .. Len(UpperCase)}
      \cup {LowerCase[i] : i \in 1 .. Len(LowerCase)}
      \cup {"0", "1", "2", "3", "4", "5", "6", "7", "8", "9",
            ".", ":", "/", "(", ")", "^", "*"}

\* the pattern at position i of t
StartsAt(t, i, w) ==
    i + Len(w) - 1 <= Len(t) /\ SubSeq(t, i, i + Len(w) - 1) = w

\* contains_links: re.search(link_pattern, text), case-sensitive
contains_links(text) ==
    \E i \in 1 .. Len(text) :
        \E scheme \in {Scheme_Http, Scheme_Https} :
            /\ StartsAt(text, i, scheme)
            /\ i + Len(scheme) <= Len(text)
            /\ text[i + Len(scheme)] \in LinkChars

\* contains_bad_words
contains_bad_words(text) ==
    \E bad_word \in BAD_WORDS : Contains(LowerText(text), bad_word)

\* message_handler without the try / except around warning_msg.delete():
\* a notice that is gone raises into the handler's except branch
message_handler_unguarded(c, u, text, status, deleteOk, replyOk, noticeOk) ==
    LET rule == IF ~AUTO_MODERATION_ENABLED \/ is_user_admin(status) THEN "none"
                ELSE IF FILTER_LINKS /\ contains_links(text) THEN "banned_link"
                ELSE IF FILTER_BAD_WORDS /\ contains_bad_words(text)
                THEN "blocked_word"
                ELSE "none"
        deletes == rule # "none"
        noticed == deletes /\ deleteOk /\ replyOk
        r == [Result("message_handler", c, u, u) EXCEPT !.status = status]
    IN  /\ UNCHANGED <<groups, filterVars>>
        /\ out' = [r EXCEPT
                     !.text = text,
                     !.admin = is_user_admin(status),
                     !.decision = IF deletes THEN "delete" ELSE "allow",
                     !.calls = IF noticed
                               THEN <<"delete_message", "delete_notice">>
                               ELSE IF deletes THEN <<"delete_message">>
                               ELSE <<>>,
                     !.notice = IF ~noticed THEN "none"
                                ELSE IF noticeOk THEN "deleted" ELSE "gone",
                     !.reason = rule,
                     !.replies = IF ~(deletes /\ deleteOk /\ replyOk) THEN <<>>
                                 ELSE IF rule = "banned_link"
                                 THEN <<"links_not_allowed">>
                                 ELSE <<"inappropriate_language">>,
                     !.error = IF deletes /\ ~(deleteOk /\ replyOk /\ noticeOk)
                               THEN "caught" ELSE "none"]

\* message_handler: the text message `text' of u in chat c; status is what
\* chat.get_member answers for u, noticeOk whether the notice is still
\* there when it is deleted 5 seconds after it was sent
message_handler(c, u, text, status, deleteOk, replyOk, noticeOk) ==
    LET rule == IF ~AUTO_MODERATION_ENABLED \/ is_user_admin(status) THEN "none"
                ELSE IF FILTER_LINKS /\ contains_links(text) THEN "banned_link"
                ELSE IF FILTER_BAD_WORDS /\ contains_bad_words(text)
                THEN "blocked_word"
                ELSE "none"
        deletes == rule # "none"
        noticed == deletes /\ deleteOk /\ replyOk
        r == [Result("message_handler", c, u, u) EXCEPT !.status = status]
    IN  /\ UNCHANGED <<groups, filterVars>>
        /\ out' = [r EXCEPT
                     !.text = text,
                     !.admin = is_user_admin(status),
                     !.decision = IF deletes THEN "delete" ELSE "allow",
                     !.calls = IF noticed
                               THEN <<"delete_message", "delete_notice">>
                               ELSE IF deletes THEN <<"delete_message">>
                               ELSE <<>>,
                     !.notice = IF ~noticed THEN "none"
                                ELSE IF noticeOk THEN "deleted" ELSE "gone",
                     !.reason = rule,
                     !.replies = IF ~(deletes /\ deleteOk /\ replyOk) THEN <<>>
                                 ELSE IF rule = "banned_link"
                                 THEN <<"links_not_allowed">>
                                 ELSE <<"inappropriate_language">>,
                     \* lines 438-441, 452-455: whatever deleting the
                     \* notice raises is dropped by the bare except
                     !.error = IF deletes /\ ~(deleteOk /\ replyOk)
                               THEN "caught" ELSE "none"]

-----------------------------------------------------------------------------
(* The state after construction *)

FloodChat == "g1"
Observed == "u1"         \* the user whose messages the observer notes

\* The observer's notes on the messages of Observed: how many, when the
\* first and the last came, whether each came 3 seconds after the one
\* before, and which of them (by number) were classified Flood
NothingSeen ==
    [n |-> 0, first |-> 0, last |-> 0, spaced |-> TRUE, floods |-> {}]

\* no BlockedWord and no MediaSetting row
NoFilters ==
    /\ blocked_words = [c \in Chats |-> <<>>]
    /\ media_settings = [c \in Chats |-> [m \in MediaTypes |-> <<>>]]

EmptyStore ==
    /\ NoFilters
    /\ group_users = [u \in Users |-> <<>>]
    /\ warnings = [k \in Keys |-> 0]
    /\ user_warnings = [u \in Users |-> 0]
    /\ banned = {}
    /\ out = NoOut

\* the platform as the bot finds it: no administrator known to the model,
\* default permissions
DefaultPlatform ==
    /\ admins = [c \in Chats |-> {}]
    /\ chat_permissions = [c \in Chats |-> "default"]

\* no handler is in flight
NoTasks == tasks = <<>>

\* ContentFilterHandler.__init__, at second 0
NewDetector ==
    /\ now = 0
    /\ last_reset_time = 0
    /\ user_message_count = [u \in Users |-> <<>>]
    /\ seen = NothingSeen

-----------------------------------------------------------------------------
(* The flood detector in one chat, with the clock *)

Note(u) ==
    IF u # Observed THEN seen
    ELSE [n |-> seen.n + 1,
          first |-> IF seen.n = 0 THEN now ELSE seen.first,
          last |-> now,
          spaced |-> seen.spaced /\ (seen.n = 0 \/ now - seen.last = 3),
          floods |-> IF out'.decision = "flood"
                     THEN seen.floods \cup {seen.n + 1} ELSE seen.floods]

CountOf(u) ==
    IF user_message_count[u] = <<>> THEN 0 ELSE user_message_count[u][1].count

InitFlood ==
    /\ groups \in {gs \in [Chats -> {NoGroup} \cup {<<g>> : g \in GroupRows}] :
                     /\ gs["g2"] = NoGroup
                     /\ gs[FloodChat] # NoGroup =>
                          gs[FloodChat][1] \in
                            {NewGroup, [NewGroup EXCEPT !.anti_flood_enabled = FALSE]}}
    /\ EmptyStore
    /\ NewDetector
    /\ DefaultPlatform
    /\ NoTasks

Tick ==
    /\ now < MaxNow
    /\ now' = now + 1
    /\ UNCHANGED <<groups, moderationVars, filterVars, platformVars, tasks, last_reset_time,
                   user_message_count, seen, out>>

MessageReceived == \E u \in Users, muteOk \in BOOLEAN, replyOk \in BOOLEAN :
    /\ IF u = Observed THEN seen.n < MaxMsgs ELSE CountOf(u) < MaxOther
    /\ check_flood(FloodChat, u, muteOk, replyOk)
    /\ seen' = Note(u)
    /\ UNCHANGED <<groups, moderationVars, filterVars, platformVars, tasks, now>>

NextFlood == Tick \/ MessageReceived

SpecFlood == InitFlood /\ [][NextFlood]_vars

AntiFloodOn ==
    groups[FloodChat] # NoGroup /\ groups[FloodChat][1].anti_flood_enabled

\* C5: with anti-flood on, when a user's 5 messages to one chat come within
\* flood_window seconds, the first 4 are Normal and the 5th is Flood,
\* whenever the detector was started and whatever others sent in between.
C5_FifthInWindowIsFlood ==
    (AntiFloodOn /\ seen.n = FLOOD_LIMIT
       /\ seen.last - seen.first <= FLOOD_WINDOW) =>
      seen.floods = {FLOOD_LIMIT}

\* C6: a user whose messages come 3 seconds apart (5 of them take 12
\* seconds, more than the window) has none of them classified Flood.
C6_SpacedNeverFlood ==
    seen.spaced => seen.floods = {}

\* five messages, 3 seconds apart, in a chat with anti-flood on
C6_Witness ==
    /\ AntiFloodOn
    /\ seen.spaced
    /\ seen.n = 5
    /\ seen.last - seen.first = 12
    /\ out.handler = "check_flood"

-----------------------------------------------------------------------------
(* The flood detector over two chats, two users and more than a day *)

OtherChat == "g2"        \* anti-flood off there, or no Group row

\* what the clock can advance by: a little less than a window, or a day
Gaps == {FLOOD_WINDOW - 1, 86400}

\* the clock runs for two such steps, before and after the day
Horizon == 2 * (FLOOD_WINDOW - 1)

\* per (chat, user): the messages observed, how many of them were
\* classified Flood and how many mute calls the platform accepted
NothingCounted == [k \in Keys |-> [n |-> 0, floods |-> 0, mutes |-> 0]]

SentBy(u) == SumOver([c \in Chats |-> seen[<<c, u>>].n], Chats)

\* Observed is a member of FloodChat with one warning
InitWindows ==
    /\ groups \in {gs \in [Chats -> {NoGroup} \cup {<<g>> : g \in GroupRows}] :
                     /\ gs[FloodChat] = <<NewGroup>>
                     /\ gs[OtherChat] \in
                          {NoGroup, <<[NewGroup EXCEPT !.anti_flood_enabled = FALSE]>>}}
    /\ NoFilters
    /\ group_users =
         [u \in Users |->
            IF u = Observed
            THEN <<[NewGroupUser(FloodChat, TRUE) EXCEPT !.warnings_count = 1]>>
            ELSE <<>>]
    /\ warnings = [k \in Keys |-> IF k = <<FloodChat, Observed>> THEN 1 ELSE 0]
    /\ user_warnings = [u \in Users |-> 0]
    /\ banned = {}
    /\ out = NoOut
    /\ now = 0
    /\ last_reset_time = 0
    /\ user_message_count = NoCounts
    /\ seen = NothingCounted
    /\ DefaultPlatform
    /\ NoTasks

Elapse == \E d \in Gaps :
    /\ now + d <= 86400 + Horizon
    /\ (now + d) % 86400 <= Horizon
    /\ now' = now + d
    /\ UNCHANGED <<groups, moderationVars, filterVars, platformVars, tasks,
                   last_reset_time, user_message_count, seen, out>>

\* as Observe, with a warning counted against the user classified Flood
Observe_warning == \E c \in Chats, u \in Users, muteOk \in BOOLEAN, replyOk \in BOOLEAN :
    /\ SentBy(u) < (IF u = Observed THEN MaxMsgs ELSE MaxOther)
    /\ check_flood(c, u, muteOk, replyOk)
    /\ seen' = [seen EXCEPT
                  ![<<c, u>>] =
                     [n |-> @.n + 1,
                      floods |-> @.floods + (IF out'.decision = "flood" THEN 1 ELSE 0),
                      mutes |-> @.mutes + (IF out'.mute = "ok" THEN 1 ELSE 0)]]
    /\ user_warnings' = IF out'.decision = "flood"
                        THEN [user_warnings EXCEPT ![u] = 1] ELSE user_warnings
    /\ UNCHANGED <<groups, group_users, warnings, banned, filterVars,
                   platformVars, tasks, now>>

\* check_flood on a message of u in chat c
Observe == \E c \in Chats, u \in Users, muteOk \in BOOLEAN, replyOk \in BOOLEAN :
    /\ SentBy(u) < (IF u = Observed THEN MaxMsgs ELSE MaxOther)
    /\ check_flood(c, u, muteOk, replyOk)
    /\ seen' = [seen EXCEPT
                  ![<<c, u>>] =
                     [n |-> @.n + 1,
                      floods |-> @.floods + (IF out'.decision = "flood" THEN 1 ELSE 0),
                      mutes |-> @.mutes + (IF out'.mute = "ok" THEN 1 ELSE 0)]]
    /\ UNCHANGED <<groups, moderationVars, filterVars, platformVars, tasks, now>>

NextWindows == Elapse \/ Observe

SpecWindows == InitWindows /\ [][NextWindows]_vars

\* this step is check_flood on a message of u in chat c
Observes(c, u) == seen'[<<c, u>>].n = seen[<<c, u>>].n + 1

\* C22: a message that comes more than flood_window seconds after the start
\* of its sender's window, a day or more included, finds the window reset:
\* it is counted as the first of a new window and is not a Flood
C22_StaleWindowEvicted ==
    [][\A c \in Chats, u \in Users :
          (/\ Observes(c, u)
           /\ user_message_count[u] # <<>>
           /\ now - user_message_count[u][1].first_message_time > FLOOD_WINDOW)
            => /\ out'.count = 1
               /\ out'.decision = "normal"
               /\ user_message_count'[u][1].first_message_time = now]_vars

\* C23: the observation that is classified Flood leaves the sender's window
\* at count 0 and start now, whether or not the mute and the notice went out
C23_FloodResets ==
    [][\A c \in Chats, u \in Users :
          (Observes(c, u) /\ out'.decision = "flood")
            => user_message_count'[u] =
                 <<[count |-> 0, first_message_time |-> now]>>]_vars

\* C24: a Flood in a chat takes flood_limit messages of that user in that
\* chat; what the user sent elsewhere does not count
C24_WindowsPerGroup ==
    \A k \in Keys : seen[k].floods > 0 => seen[k].n >= FLOOD_LIMIT

\* C25: the observation of a message of one user leaves the count and the
\* window start of every other user as they were
C25_OtherWindowsUntouched ==
    [][\A c \in Chats, u \in Users :
          Observes(c, u)
            => \A v \in Users \ {u} :
                  user_message_count'[v] = user_message_count[v]]_vars

\* C26: a burst of flood_limit messages or more of one user in one chat
\* with anti-flood on, all inside one window, is classified Flood once and
\* muted once
C26_OneFloodOneMute ==
    \A k \in Keys :
        (/\ now <= FLOOD_WINDOW
         /\ k[1] = FloodChat
         /\ seen[k].n >= FLOOD_LIMIT)
          => seen[k].floods = 1 /\ seen[k].mutes = 1

\* C27: check_flood changes no warning count, adds no Warning row, bans
\* nobody; a Flood leads to nothing but the 30-minute restriction
C27_FloodApartFromWarnings ==
    [][\A c \in Chats, u \in Users :
          Observes(c, u)
            => /\ <<group_users, warnings, user_warnings, banned>>' =
                    <<group_users, warnings, user_warnings, banned>>
               /\ out'.ban = "none"
               /\ out'.until \in {"none", "now+30min"}]_vars

\* a message of the member with one warning was classified Flood
C27_Witness ==
    /\ out.handler = "check_flood" /\ out.decision = "flood"
    /\ out.actor = Observed /\ out.chat = FloodChat
    /\ seen[<<FloodChat, Observed>>].floods = 1
    /\ group_users[Observed][1].warnings_count = 1
    /\ warnings[<<FloodChat, Observed>>] = 1

-----------------------------------------------------------------------------
(* The content filter in one chat *)

MaxWords == 1            \* rows of table blocked_words, per chat

FilterChat == "g1"

\* the administrators the platform lists for the chat
FilterAdmins == {"u1"}

\* what chat.get_member can answer for a user
StatusOf(u) ==
    IF u \in FilterAdmins THEN {"administrator", "lookup_failed"}
    ELSE {"member", "lookup_failed"}

\* what follows /block: the joined words, and whether --regex was there
BlockWords == {<<>>, Word_BadCaps, Pattern_Spam, Pattern_Unclosed}

Messages ==
    {Text_Both, Text_UrlAndWord, Text_Spammy, Text_MySpam, Text_Hello}

\* the attributes a message carries: an animation comes with its document
Attachments == {{}, {"photo"}, {"animation", "document"}}

\* MediaSetting rows for photos, as the admins of a chat have set them
PhotoSettings ==
    {<<>>,
     <<[allowed |-> FALSE, admin_only |-> FALSE]>>,
     <<[allowed |-> TRUE, admin_only |-> TRUE]>>}

InitFilter ==
    /\ groups \in {gs \in [Chats -> {NoGroup, <<NewGroup>>}] : gs["g2"] = NoGroup}
    /\ blocked_words = [c \in Chats |-> <<>>]
    /\ \E photo \in PhotoSettings :
         /\ groups[FilterChat] = NoGroup => photo = <<>>
         /\ media_settings =
              [c \in Chats |->
                 [m \in MediaTypes |->
                    IF c = FilterChat /\ m = "photo" THEN photo ELSE <<>>]]
    /\ group_users = [u \in Users |-> <<>>]
    /\ warnings = [k \in Keys |-> 0]
    /\ user_warnings = [u \in Users |-> 0]
    /\ banned = {}
    /\ out = NoOut
    /\ NewDetector
    /\ DefaultPlatform
    /\ NoTasks

Block == \E a \in Users, word \in BlockWords, regex \in BOOLEAN,
            replyOk \in BOOLEAN :
    /\ add_blocked_word(FilterChat, a, word, regex, FilterAdmins, TRUE, replyOk)
    /\ Len(blocked_words'[FilterChat]) <= MaxWords
    /\ UNCHANGED <<moderationVars, floodVars, platformVars, tasks>>

TextFiltered == \E u \in Users, text \in Messages \cup {<<>>},
                   deleteOk \in BOOLEAN :
    /\ filter_content(FilterChat, u, text, FilterAdmins, deleteOk, TRUE)
    /\ UNCHANGED <<moderationVars, floodVars, platformVars, tasks>>

TextModerated == \E u \in Users, text \in Messages, deleteOk \in BOOLEAN :
    /\ \E status \in StatusOf(u) :
         message_handler(FilterChat, u, text, status, deleteOk, TRUE, TRUE)
    /\ UNCHANGED <<moderationVars, floodVars, platformVars, tasks>>

MediaFiltered == \E u \in Users, fields \in Attachments,
                    adminsOk \in BOOLEAN, deleteOk \in BOOLEAN :
    /\ filter_media(FilterChat, u, fields, FilterAdmins, adminsOk, deleteOk, TRUE)
    /\ UNCHANGED <<moderationVars, floodVars, platformVars, tasks>>

NextFilter == Block \/ TextFiltered \/ TextModerated \/ MediaFiltered

SpecFilter == InitFilter /\ [][NextFilter]_vars

\* the text matches a blocked word, as the handler that ran understands it:
\* a row of the chat's blocklist (filter_content), a word of BAD_WORDS
\* (message_handler)
MatchesBlockedWord(o) ==
    \/ /\ o.handler = "filter_content"
       /\ groups[o.chat] # NoGroup
       /\ ScanBlocked(blocked_words[o.chat], 1, LowerText(o.text)) = "hit"
    \/ /\ o.handler = "message_handler"
       /\ contains_bad_words(o.text)

\* the text matches a banned link, as the handler that ran understands it
MatchesBannedLink(o) ==
    \/ /\ o.handler = "filter_content"
       /\ groups[o.chat] # NoGroup
       /\ HasBannedLink(LowerText(o.text))
    \/ /\ o.handler = "message_handler"
       /\ contains_links(o.text)

\* C7: a text of a non-admin that matches both a blocked word and a banned
\* link is deleted for the blocked word: the word rule comes first and the
\* link rule is not reached.
C7_BlockedWordBeforeLink ==
    (~out.admin /\ MatchesBlockedWord(out) /\ MatchesBannedLink(out)) =>
      (out.decision = "delete" /\ out.reason = "blocked_word")

\* C8: whatever the text or the media, a message of an administrator of
\* the chat is allowed: no filter deletes it.
C8_AdminExempt ==
    (out.handler \in {"filter_content", "message_handler", "filter_media"}
       /\ out.admin) =>
      out.decision = "allow"

\* the lowered text begins with "spam"
BeginsWithSpam(text) ==
    Len(text) >= 4 /\ LowerText(SubSeq(text, 1, 4)) = <<"s", "p", "a", "m">>

RegexRows(c) ==
    {blocked_words[c][i] : i \in {j \in 1 .. Len(blocked_words[c]) :
                                     blocked_words[c][j].is_regex}}

-----------------------------------------------------------------------------
(* The moderation state machine: joins, leaves, captcha, warnings, bans *)

\* The first chat is unknown, or known with approval mode or captcha
\* switched on by its admins; the second chat is unknown
GroupConfigs ==
    {[NewGroup EXCEPT !.approval_mode = TRUE],
     [NewGroup EXCEPT !.captcha_enabled = TRUE]}

Init ==
    /\ groups \in {gs \in [Chats -> {NoGroup} \cup {<<g>> : g \in GroupConfigs}] :
                     gs["g2"] = NoGroup}
    /\ EmptyStore
    /\ NewDetector
    /\ DefaultPlatform
    /\ NoTasks

Join == \E c \in Chats, u \in Users, replyOk \in BOOLEAN :
    /\ TotalMemberRows < MaxRows
    /\ welcome_user(c, u, replyOk)
    /\ UNCHANGED <<floodVars, platformVars, tasks, filterVars>>

Leave == \E c \in Chats, u \in Users :
    goodbye_user(c, u, TRUE) /\ UNCHANGED <<floodVars, platformVars, tasks, filterVars>>

ButtonPressed == \E c \in Chats, k \in Users, t \in Users \cup {NoUser} :
    handle_captcha(c, k, t, TRUE) /\ UNCHANGED <<floodVars, platformVars, tasks, filterVars>>

Warn == \E c \in Chats, a \in Issuers, t \in Users \cup {NoUser},
           admin_ids \in SUBSET Issuers, banOk \in BOOLEAN, replyOk \in BOOLEAN :
    /\ TotalWarningRows < MaxWarnRows
    /\ warn_user(c, a, t, admin_ids, banOk, replyOk)
    /\ UNCHANGED <<floodVars, platformVars, tasks, filterVars>>

Next == Join \/ Leave \/ ButtonPressed \/ Warn

Spec == Init /\ [][Next]_vars

\* C35: a button press in chat G that verifies user u, a member of G, sets
\* the approval flag of the Member row (G, u) and changes no other row:
\* none of u in another group, none of another user
C35_ApprovalScoped ==
    [][(/\ out'.handler = "handle_captcha"
        /\ out'.decision = "approve"
        /\ MemberIdx(out'.target, out'.chat) # 0)
         => /\ DOMAIN group_users' = DOMAIN group_users
            /\ \A u \in Users :
                 /\ Len(group_users'[u]) = Len(group_users[u])
                 /\ \A i \in 1 .. Len(group_users[u]) :
                      group_users'[u][i] # group_users[u][i]
                        => (u = out'.target
                              /\ group_users[u][i].group_id = out'.chat)
            /\ group_users'[out'.target][MemberIdx(out'.target, out'.chat)]
                 .is_approved]_vars

-----------------------------------------------------------------------------
(* Warnings *)

\* warnings_count of the Member row that /warn and /info read for (c, u)
StoredCount(c, u) ==
    IF u \in Users /\ MemberIdx(u, c) # 0
    THEN group_users[u][MemberIdx(u, c)].warnings_count
    ELSE 0

WarnDecided(o) == o.handler = "warn_user" /\ o.decision \in {"warn", "ban"}

\* C1: between two events every Member's warning count is at most
\* max_warnings, and a Warn that brings the count to max_warnings has, when it
\* is done, tried the auto-ban and reset the count (also when the platform
\* refused the ban).
C1_CountBoundedAndReset ==
    /\ \A u \in Users : \A i \in 1 .. Len(group_users[u]) :
         group_users[u][i].warnings_count <= MAX_WARNINGS
    /\ (WarnDecided(out) /\ out.count >= MAX_WARNINGS) =>
         (out.ban # "none" /\ StoredCount(out.chat, out.target) = 0)

\* C2: every admin-issued Warn on a tracked (group, user) adds exactly 1 to
\* the count; when the new count is >= max_warnings the Warn decides Ban and
\* leaves the count at 0, otherwise it replies with the new count and with
\* max_warnings minus the new count as the warnings left.
C2_WarnStep ==
    [][\A c \in Chats, t \in Users :
         (WarnDecided(out') /\ out'.chat = c /\ out'.target = t) =>
           LET new == StoredCount(c, t) + 1
           IN  /\ out'.count = new
               /\ IF new >= MAX_WARNINGS
                  THEN /\ out'.decision = "ban"
                       /\ StoredCount(c, t)' = 0
                  ELSE /\ out'.decision = "warn"
                       /\ out'.replies = <<"warning_issued">>
                       /\ out'.left = MAX_WARNINGS - new
                       /\ StoredCount(c, t)' = new]_vars

\* C3: Warning rows are append-only and count the warns: a step adds one row
\* for (group, user) exactly when it is a successful Warn decision for that
\* user, and no step removes a row.
C3_RowsCountWarnDecisions ==
    [][\A k \in Keys :
         warnings'[k] =
           warnings[k]
             + (IF WarnDecided(out') /\ <<out'.chat, out'.target>> = k
                THEN 1 ELSE 0)]_vars

\* C4: a button press whose payload names user t, pressed by another user,
\* does not change the approval flag of any Member row of t.
C4_CaptchaIdentityBinding ==
    [][(out'.handler = "handle_captcha" /\ out'.actor # out'.target) =>
         group_users' = group_users]_vars

-----------------------------------------------------------------------------
(* Members *)

\* the Member rows of u in chat c
RowsOf(u, c) ==
    {i \in 1 .. Len(group_users[u]) : group_users[u][i].group_id = c}

\* the increments stored for (c, u): the counts of u's rows in c, added up
IncrementsOf(c, u) ==
    SumOver([i \in RowsOf(u, c) |-> group_users[u][i].warnings_count],
            RowsOf(u, c))

\* C11: a Join leaves the new Member Unapproved when the group has captcha
\* on (and approval mode off), Unapproved when it has approval mode on, and
\* Approved otherwise.
C11_JoinAdmission ==
    (out.handler = "welcome_user" /\ out.error = "none") =>
      LET rows == group_users[out.target]
          g == groups[out.chat][1]
      IN  rows[Len(rows)].is_approved =
            (~g.captcha_enabled /\ ~g.approval_mode)

\* C12: whatever Joins and Leaves were handled, a (group, user) pair has at
\* most one Member row.
C12_OneMemberPerPair ==
    \A u \in Users, c \in Chats : Cardinality(RowsOf(u, c)) <= 1

\* Joins, leaves and warnings in one chat
HomeChat == "g1"

InitRejoin ==
    /\ groups \in {gs \in [Chats -> {NoGroup} \cup {<<g>> : g \in GroupRows}] :
                     /\ gs["g2"] = NoGroup
                     /\ gs[HomeChat] # NoGroup =>
                          gs[HomeChat][1] \in GroupConfigs \cup {NewGroup}}
    /\ EmptyStore
    /\ NewDetector
    /\ DefaultPlatform
    /\ NoTasks

Rejoin == \E u \in Users, replyOk \in BOOLEAN :
    /\ TotalMemberRows < MaxRows
    /\ welcome_user(HomeChat, u, replyOk)
    /\ UNCHANGED <<floodVars, platformVars, tasks, filterVars>>

LeaveHome == \E u \in Users, replyOk \in BOOLEAN :
    goodbye_user(HomeChat, u, replyOk) /\ UNCHANGED <<floodVars, platformVars, tasks, filterVars>>

WarnHome == \E a \in Issuers, t \in Users, admin_ids \in SUBSET Issuers,
               banOk \in BOOLEAN, replyOk \in BOOLEAN :
    /\ TotalWarningRows < MaxWarnRows
    /\ warn_user(HomeChat, a, t, admin_ids, banOk, replyOk)
    /\ UNCHANGED <<floodVars, platformVars, tasks, filterVars>>

NextRejoin == Rejoin \/ LeaveHome \/ WarnHome

SpecRejoin == InitRejoin /\ [][NextRejoin]_vars

C15_UntrackedWarnNoOp ==
    [][\A c \in Chats, t \in Users :
         (out'.handler = "warn_user" /\ out'.chat = c /\ out'.target = t
            /\ out'.decision = "none" /\ out'.error = "none"
            /\ out'.replies # <<"only_admins">> /\ RowsOf(t, c) = {}) =>
           /\ out'.replies = <<"user_not_found">>
           /\ warnings' = warnings
           /\ group_users' = group_users
           /\ banned' = banned]_vars

\* C16: the Warning rows stored for a (group, user) pair are as many as
\* the increments stored for it: no row without its increment, no
\* increment without its row, whatever failed in between.
C16_RowIffIncrement ==
    \A c \in Chats, u \in Users : warnings[<<c, u>>] = IncrementsOf(c, u)

\* the step handles once more the event that was handled last: the same
\* Join, Warn or button press, which went through the first time
Redelivery ==
    /\ out.handler \in {"welcome_user", "warn_user", "handle_captcha"}
    /\ out.error = "none"
    /\ out'.handler = out.handler
    /\ out'.chat = out.chat
    /\ out'.actor = out.actor
    /\ out'.target = out.target

\* C20: handling a redelivered copy of a Join, Warn or button press that
\* was processed already leaves Member rows, counts, approval flags and
\* Warning rows as the first handling left them.
C20_RedeliverySafe ==
    [][Redelivery => (group_users' = group_users /\ warnings' = warnings)]_vars

-----------------------------------------------------------------------------
(* The media filter in one chat, with rows for photos and for GIFs *)

\* the media type each attribute of a message stands for
TypeOf(field) == IF field = "animation" THEN "gif" ELSE field

InitMedia ==
    /\ groups \in {gs \in [Chats -> {NoGroup, <<NewGroup>>}] : gs["g2"] = NoGroup}
    /\ blocked_words = [c \in Chats |-> <<>>]
    /\ \E photo \in PhotoSettings, gif \in PhotoSettings :
         /\ groups[FilterChat] = NoGroup => (photo = <<>> /\ gif = <<>>)
         /\ media_settings =
              [c \in Chats |->
                 [m \in MediaTypes |->
                    IF c = FilterChat /\ m = "photo" THEN photo
                    ELSE IF c = FilterChat /\ m = "gif" THEN gif
                    ELSE <<>>]]
    /\ group_users = [u \in Users |-> <<>>]
    /\ warnings = [k \in Keys |-> 0]
    /\ user_warnings = [u \in Users |-> 0]
    /\ banned = {}
    /\ out = NoOut
    /\ now = 0
    /\ last_reset_time = 0
    /\ user_message_count = NoCounts
    /\ seen = {}
    /\ DefaultPlatform
    /\ NoTasks

\* filter_media on a message; `seen' keeps the attributes it carried
MediaReceived == \E u \in Users, fields \in Attachments, adminsOk \in BOOLEAN,
                    deleteOk \in BOOLEAN, replyOk \in BOOLEAN :
    /\ filter_media(FilterChat, u, fields, FilterAdmins, adminsOk, deleteOk, replyOk)
    /\ seen' = fields
    /\ UNCHANGED <<moderationVars, platformVars, tasks, now, last_reset_time,
                   user_message_count>>

NextMedia == MediaReceived

SpecMedia == InitMedia /\ [][NextMedia]_vars

\* the MediaSetting row of (chat, type) forbids the media to this sender
Forbidden(c, type, is_admin) ==
    /\ media_settings[c][type] # <<>>
    /\ \/ ~media_settings[c][type][1].allowed
       \/ media_settings[c][type][1].admin_only /\ ~is_admin

\* C28: when the platform calls go through, a message is deleted exactly
\* when it carries media of a type whose row in the chat forbids it to the
\* sender; without such a row, or without media, nothing is deleted
C28_MediaVerdict ==
    (out.handler = "filter_media" /\ out.error = "none")
      => (out.decision = "delete"
            <=> \E field \in seen :
                   Forbidden(out.chat, TypeOf(field), out.actor \in FilterAdmins))

-----------------------------------------------------------------------------
(* Joins and button presses in one chat, for every setting of the group *)

\* The data of a pressed button, in pieces: "_" and the text between
Payloads ==
    {<<"captcha", "_", "u1">>, <<"captcha", "_", "u2">>,
     <<"captcha", "_", "nobody">>, <<"captcha", "_">>, <<"captcha">>,
     <<"manage", "_", "admins">>, <<"captcha", "_", "u1", "_", "u2">>, <<>>}

\* str.split('_')
RECURSIVE Split(_)
Split(data) ==
    IF data = <<>> THEN << <<>> >>
    ELSE LET rest == Split(Tail(data))
         IN  IF Head(data) = "_" THEN << <<>> >> \o rest
             ELSE << <<Head(data)>> \o rest[1] >> \o Tail(rest)

\* the user id a field of the data spells
IdOf(field) == IF Len(field) = 1 THEN field[1] ELSE NoUser

\* handle_captcha from the data of the button: query.data.split('_')[1] is
\* taken before the try block is entered
handle_captcha_data(c, k, data, replyOk) ==
    IF Len(Split(data)) < 2
    THEN /\ out' = [Result("handle_captcha", c, k, NoUser) EXCEPT
                      !.text = data, !.error = "escaped"]
         /\ UNCHANGED <<groups, group_users, warnings, user_warnings, banned>>
    ELSE handle_captcha(c, k, IdOf(Split(data)[2]), replyOk)

\* the data button_handler of bot.py has a text for
MenuButtons == {<<"manage", "_", "admins">>}

\* button_handler: the buttons of the admin menu; other data is ignored
button_handler(c, k, data, answerOk, editOk) ==
    LET r == [Result("button_handler", c, k, NoUser) EXCEPT !.text = data]
    IN  /\ out' = IF ~answerOk THEN [r EXCEPT !.error = "caught"]
                  ELSE IF data \notin MenuButtons THEN r
                  ELSE IF editOk THEN [r EXCEPT !.replies = <<"menu_text">>]
                  ELSE [r EXCEPT !.error = "caught"]
        /\ UNCHANGED <<groups, group_users, warnings, user_warnings, banned>>

InitAdmission ==
    /\ groups \in {gs \in [Chats -> {NoGroup} \cup {<<g>> : g \in GroupRows}] :
                     /\ gs["g2"] = NoGroup
                     /\ gs[HomeChat] # NoGroup =>
                          (gs[HomeChat][1].goodbye_enabled
                             /\ gs[HomeChat][1].anti_flood_enabled)}
    /\ EmptyStore
    /\ NewDetector
    /\ DefaultPlatform
    /\ NoTasks

Admit == \E u \in Users, replyOk \in BOOLEAN :
    /\ TotalMemberRows < MaxRows
    /\ welcome_user(HomeChat, u, replyOk)
    /\ UNCHANGED <<floodVars, platformVars, tasks, filterVars>>

Pressed == \E k \in Users, data \in Payloads, replyOk \in BOOLEAN :
    /\ handle_captcha_data(HomeChat, k, data, replyOk)
    /\ UNCHANGED <<floodVars, platformVars, tasks, filterVars>>

MenuPressed == \E k \in Users, data \in Payloads, answerOk \in BOOLEAN,
                  editOk \in BOOLEAN :
    /\ button_handler(HomeChat, k, data, answerOk, editOk)
    /\ UNCHANGED <<floodVars, platformVars, tasks, filterVars>>

NextAdmission == Admit \/ Pressed \/ MenuPressed

SpecAdmission == InitAdmission /\ [][NextAdmission]_vars

\* C29: a Join that went through replies by the admission branch alone: the
\* verification prompt, its button carrying the id of the user who joined,
\* with captcha and without approval mode; the approval-pending notice in
\* approval mode; welcome_enabled decides on the plain welcome only
C29_JoinReplies ==
    (out.handler = "welcome_user" /\ out.error = "none") =>
        LET g == groups[out.chat][1]
        IN  /\ (g.captcha_enabled /\ ~g.approval_mode)
                 => (out.replies = <<"captcha_prompt">> /\ out.payload = out.target)
            /\ g.approval_mode => out.replies = <<"approval_pending">>
            /\ (~g.captcha_enabled /\ ~g.approval_mode)
                 => out.replies = IF g.welcome_enabled THEN <<"welcome">> ELSE <<>>

\* C30: a button press whose data names no user with a Member row, or has
\* not the form captcha_<id>, changes no Member row, sends one reply at
\* most and raises nothing out of the handler
C30_UnknownPayloadNoOp ==
    [][(/\ out'.handler \in {"handle_captcha", "button_handler"}
        /\ AnyMemberIdx(out'.target) = 0)
         => /\ group_users' = group_users
            /\ Len(out'.replies) <= 1
            /\ out'.error # "escaped"]_vars

-----------------------------------------------------------------------------
(* The store fails while a Join or a Warn is handled *)

StoreFailures == {"query_failed", "commit_failed"}

\* warn_user of an administrator when the store raises: at the Group query
\* of line 116, or at the commit of line 156.  The except of line 158
\* prints, the finally closes the session and with it what was not committed
warn_user_store_down(c, a, t, at) ==
    LET r == [Result("warn_user", c, a, t) EXCEPT !.store = at, !.error = "caught"]
        i == MemberIdx(t, c)
        n == IF i # 0 THEN group_users[t][i].warnings_count + 1 ELSE 0
    IN  /\ UNCHANGED <<group_users, warnings, user_warnings>>
        /\ IF at = "query_failed"
           THEN /\ out' = r
                /\ UNCHANGED <<groups, banned>>
           ELSE \* the Group row was committed at line 120, the ban and the
                \* replies were awaited before the commit
                /\ groups' = GetOrCreateGroup(c)
                /\ banned' = IF i # 0 /\ n >= MAX_WARNINGS
                             THEN banned \cup {<<c, t>>} ELSE banned
                /\ out' = IF i # 0 /\ n >= MAX_WARNINGS
                          THEN [r EXCEPT !.count = n, !.decision = "ban",
                                         !.left = MAX_WARNINGS - n,
                                         !.calls = <<"ban_chat_member">>,
                                         !.ban = "ok", !.replies = <<"banned">>]
                          ELSE IF i # 0
                          THEN [r EXCEPT !.count = n, !.decision = "warn",
                                         !.left = MAX_WARNINGS - n,
                                         !.replies = <<"warning_issued">>]
                          ELSE [r EXCEPT !.replies = <<"user_not_found">>]

\* welcome_user when the store raises: at the Group query of line 16, or
\* at the commit of line 53, after the welcome was sent
welcome_user_store_down(c, u, at) ==
    LET r == [Result("welcome_user", c, u, u) EXCEPT !.store = at, !.error = "caught"]
        g == GetOrCreateGroup(c)[c][1]
        prompt == IF g.captcha_enabled /\ ~g.approval_mode THEN "captcha_prompt"
                  ELSE IF g.approval_mode THEN "approval_pending"
                  ELSE "welcome"
    IN  /\ UNCHANGED <<group_users, warnings, user_warnings, banned>>
        /\ IF at = "query_failed"
           THEN /\ out' = r
                /\ UNCHANGED groups
           ELSE /\ groups' = GetOrCreateGroup(c)
                /\ out' = [r EXCEPT
                             !.replies = IF g.welcome_enabled
                                         THEN <<prompt>> ELSE <<>>,
                             !.payload = IF prompt = "captcha_prompt"
                                            /\ g.welcome_enabled
                                         THEN u ELSE "none"]

JoinStoreDown == \E u \in Users, at \in StoreFailures :
    /\ welcome_user_store_down(HomeChat, u, at)
    /\ UNCHANGED <<floodVars, platformVars, tasks, filterVars>>

WarnStoreDown == \E a \in Issuers, t \in Users, at \in StoreFailures :
    /\ warn_user_store_down(HomeChat, a, t, at)
    /\ UNCHANGED <<floodVars, platformVars, tasks, filterVars>>

NextOutage == Rejoin \/ WarnHome \/ JoinStoreDown \/ WarnStoreDown

SpecOutage == InitRejoin /\ [][NextOutage]_vars

\* C21: an event during which the store failed leaves nothing applied: no
\* reply and no ban went out to the platform, and no row was stored
C21_NoPartialApplication ==
    [][out'.store # "ok"
         => /\ out'.replies = <<>> /\ out'.ban = "none"
            /\ banned' = banned
            /\ <<groups, group_users, warnings>>' = <<groups, group_users, warnings>>]_vars

-----------------------------------------------------------------------------
(* The admin-only commands in one chat whose administrators change *)

MaxCmds == 1             \* accepted commands that add to one table

AdminChat == "g1"
Subject == "u2"          \* the user the commands are aimed at

\* the list as it was when the bot started
get_administrators_cached(c) == IF c = AdminChat THEN {"u1"} ELSE {}

\* update.effective_chat.get_administrators(): the list as it is now
get_administrators(c) == admins[c]

\* chat.get_member(user.id).status, as it is now
get_member_status(c, u) == IF u \in admins[c] THEN "administrator" ELSE "member"

InitAdmin ==
    /\ groups = [c \in Chats |-> NoGroup]
    /\ EmptyStore
    /\ NewDetector
    /\ NoTasks
    /\ admins = [c \in Chats |-> get_administrators_cached(c)]
    /\ chat_permissions = [c \in Chats |-> "default"]

\* the platform: the owner of the chat takes the rights of u away
Demoted == \E u \in Users :
    /\ u \in admins[AdminChat]
    /\ admins' = [admins EXCEPT ![AdminChat] = @ \ {u}]
    /\ out' = Result("demoted", AdminChat, "owner", u)
    /\ UNCHANGED <<groups, moderationVars, floodVars, filterVars,
                   chat_permissions, tasks>>

CmdWarn == \E a \in Users :
    /\ warn_user(AdminChat, a, Subject, get_administrators(AdminChat), TRUE, TRUE)
    /\ warnings'[<<AdminChat, Subject>>] <= MaxCmds
    /\ UNCHANGED <<floodVars, filterVars, platformVars, tasks>>

CmdWarnInMemory == \E a \in Users :
    /\ warn_command(AdminChat, a, Subject, get_member_status(AdminChat, a),
                    TRUE, TRUE, TRUE)
    /\ user_warnings'[Subject] <= MaxCmds
    /\ UNCHANGED <<floodVars, filterVars, platformVars, tasks>>

CmdBan == \E a \in Users :
    /\ ban_command(AdminChat, a, Subject, get_member_status(AdminChat, a),
                   TRUE, TRUE)
    /\ UNCHANGED <<floodVars, filterVars, platformVars, tasks>>

CmdMute == \E a \in Users :
    /\ mute_command(AdminChat, a, Subject, get_member_status(AdminChat, a),
                    TRUE, TRUE)
    /\ UNCHANGED <<floodVars, filterVars, platformVars, tasks>>

CmdPromote == \E a \in Users, t \in Users :
    /\ promote_command(AdminChat, a, t, get_member_status(AdminChat, a),
                       TRUE, TRUE)
    /\ UNCHANGED <<floodVars, filterVars, chat_permissions, tasks>>

CmdBlock == \E a \in Users :
    /\ add_blocked_word(AdminChat, a, Word_BadCaps, FALSE,
                        get_administrators(AdminChat), TRUE, TRUE)
    /\ Len(blocked_words'[AdminChat]) <= MaxWords
    /\ UNCHANGED <<moderationVars, floodVars, platformVars, tasks>>

CmdLanguage == \E a \in Users, language \in LANGUAGES \cup {NoLanguage} :
    /\ set_language(AdminChat, a, language, get_administrators(AdminChat),
                    TRUE, TRUE, TRUE)
    /\ UNCHANGED <<moderationVars, floodVars, filterVars, admins, tasks>>

CmdClose == \E a \in Users :
    /\ close_group(AdminChat, a, get_administrators(AdminChat), TRUE, TRUE, TRUE)
    /\ UNCHANGED <<moderationVars, floodVars, filterVars, admins, tasks>>

CmdOpen == \E a \in Users :
    /\ open_group(AdminChat, a, get_administrators(AdminChat), TRUE, TRUE, TRUE)
    /\ UNCHANGED <<moderationVars, floodVars, filterVars, admins, tasks>>

CmdTagAll == \E a \in Users, countOk \in BOOLEAN :
    /\ tag_all(AdminChat, a, get_administrators(AdminChat), TRUE, countOk, TRUE)
    /\ UNCHANGED <<moderationVars, floodVars, filterVars, admins, tasks>>

NextAdmin ==
    \/ Demoted
    \/ CmdWarn \/ CmdWarnInMemory \/ CmdBan \/ CmdMute \/ CmdPromote
    \/ CmdBlock \/ CmdLanguage \/ CmdClose \/ CmdOpen \/ CmdTagAll

SpecAdmin == InitAdmin /\ [][NextAdmin]_vars

\* the admin-only commands, and what each replies to a sender it rejects
OfHandlers == {"warn_user", "add_blocked_word", "set_language",
               "close_group", "open_group", "tag_all"}
OfBot == {"warn_command", "ban_command", "mute_command", "promote_command"}
Rejections == {<<"only_admins">>, <<"admins_only">>, <<"need_admin">>}

\* the durable and the in-memory moderation state, and the platform's
ModerationState ==
    <<groups, group_users, warnings, user_warnings, blocked_words,
      media_settings, banned, admins, chat_permissions>>

\* C18: every privileged command is accepted exactly when its sender is on
\* the platform's administrator list at the time of the command, so the
\* first command of a demoted user is rejected
C18_LiveAdminCheck ==
    [][out'.handler \in OfHandlers \cup OfBot
         => (out'.replies \notin Rejections <=> out'.actor \in admins[out'.chat])]_vars

\* u1, an administrator when the bot started, was demoted and is rejected
C18_Witness ==
    /\ out.handler = "warn_user"
    /\ out.actor = "u1"
    /\ "u1" \notin admins[AdminChat]
    /\ "u2" \in admins[AdminChat]
    /\ out.replies = <<"only_admins">>

\* C19: an admin-only command sent by a user who is no administrator
\* replies with the rejection, leaves the stored and the in-memory
\* moderation state as it was and makes no ban, restrict, promote or
\* set-permissions call
C19_DeniedChangesNothing ==
    [][(out'.handler \in OfHandlers \cup OfBot /\ out'.actor \notin admins[out'.chat])
         => /\ out'.replies \in Rejections
            /\ ModerationState' = ModerationState
            /\ out'.ban = "none" /\ out'.mute = "none"
            /\ out'.promote = "none" /\ out'.permissions = "none"]_vars

\* a user who is no administrator sent /close to a chat that is open
C19_Witness ==
    /\ out.handler = "close_group"
    /\ out.actor \notin admins[AdminChat]
    /\ out.replies = <<"only_admins">>
    /\ chat_permissions[AdminChat] = "open"
    /\ warnings[<<AdminChat, Subject>>] > 0

-----------------------------------------------------------------------------
(* The handlers as coroutines: what a handler runs between two awaits is  *)
(* one step, and several updates can be in process at the same time       *)

MaxTasks == 2            \* updates in process together

WarnedChat == "g1"       \* the chat where Warned is a member
NewChat == "g2"          \* a chat the store has no Group row of
Warned == "u2"
Joiner == "u1"           \* who joins, and who sends the commands
PriorWarns == MAX_WARNINGS - 1

TaskKinds == {"welcome_user", "warn_user", "warn_command",
              "set_language", "add_blocked_word"}

\* an update as it is handed to its handler
NewTask(h, c) ==
    [handler |-> h, chat |-> c, pc |-> "dispatched",
     unknown |-> groups[c] = NoGroup,   \* no Group row yet at dispatch
     n |-> 0,                           \* the count the handler computed
     ban |-> FALSE,                     \* ban_chat_member was called
     failed |-> FALSE]                  \* the handler ended in its except

\* warn_user between its flush (line 132) and its commit (line 156): the
\* session holds an open write transaction
Writing(i) == tasks[i].handler = "warn_user" /\ tasks[i].pc = "awaiting"

\* another session is in a write transaction.  What the store does with a
\* second writer depends on DATABASE_URL: sqlite refuses it ("database is
\* locked"), a server database lets it work on what is committed
LockedOut(i) == \E j \in DOMAIN tasks : j # i /\ Writing(j)

Ended(i, failed) == [tasks EXCEPT ![i].pc = "done", ![i].failed = failed]

\* Warned joined WarnedChat and was warned PriorWarns times on both paths
InitTasks ==
    /\ groups = [c \in Chats |-> IF c = WarnedChat THEN <<NewGroup>> ELSE NoGroup]
    /\ group_users =
         [u \in Users |->
            IF u = Warned
            THEN <<[NewGroupUser(WarnedChat, TRUE) EXCEPT
                      !.warnings_count = PriorWarns]>>
            ELSE <<>>]
    /\ warnings = [k \in Keys |-> IF k = <<WarnedChat, Warned>>
                                  THEN PriorWarns ELSE 0]
    /\ user_warnings = [u \in Users |-> IF u = Warned THEN PriorWarns ELSE 0]
    /\ banned = {}
    /\ out = NoOut
    /\ NoFilters
    /\ NewDetector
    /\ DefaultPlatform
    /\ NoTasks

Dispatch == \E h \in TaskKinds, c \in Chats :
    /\ Len(tasks) < MaxTasks
    /\ h = "warn_command" => c = WarnedChat
    /\ tasks' = Append(tasks, NewTask(h, c))
    /\ UNCHANGED <<groups, moderationVars, floodVars, filterVars,
                   platformVars, out>>

\* warn_user, lines 107-134: the Group row, the Warning added and flushed
\* by the query of line 132, the count raised in the session
WarnUserBegin == \E i \in DOMAIN tasks, refuses \in BOOLEAN :
    LET c == tasks[i].chat
        idx == MemberIdx(Warned, c)
        n == IF idx # 0 THEN group_users[Warned][idx].warnings_count + 1 ELSE 0
        r == Result("warn_user", c, Joiner, Warned)
    IN  /\ tasks[i].handler = "warn_user" /\ tasks[i].pc = "dispatched"
        /\ IF refuses /\ LockedOut(i)
           THEN /\ tasks' = Ended(i, TRUE)
                /\ out' = [r EXCEPT !.error = "caught"]
                /\ UNCHANGED groups
           ELSE /\ groups' = GetOrCreateGroup(c)
                /\ tasks' = [tasks EXCEPT
                               ![i].pc = "awaiting", ![i].n = n,
                               ![i].ban = idx # 0 /\ n >= MAX_WARNINGS]
                /\ out' = [r EXCEPT !.count = n]
        /\ UNCHANGED <<moderationVars, floodVars, filterVars, platformVars>>

\* warn_user, lines 136-156: the ban or the reply was awaited; the commit
\* writes the Warning row and the count of the session
WarnUserCommit == \E i \in DOMAIN tasks :
    LET c == tasks[i].chat
        idx == MemberIdx(Warned, c)
        r == Result("warn_user", c, Joiner, Warned)
    IN  /\ tasks[i].handler = "warn_user" /\ tasks[i].pc = "awaiting"
        /\ warnings' = [warnings EXCEPT ![<<c, Warned>>] = @ + 1]
        /\ group_users' =
             IF idx # 0
             THEN [group_users EXCEPT ![Warned][idx].warnings_count = tasks[i].n]
             ELSE group_users
        /\ banned' = IF tasks[i].ban THEN banned \cup {<<c, Warned>>} ELSE banned
        /\ tasks' = Ended(i, FALSE)
        /\ out' = [r EXCEPT
                     !.count = tasks[i].n,
                     !.decision = IF tasks[i].ban THEN "ban"
                                  ELSE IF idx # 0 THEN "warn" ELSE "none",
                     !.ban = IF tasks[i].ban THEN "ok" ELSE "none",
                     !.calls = IF tasks[i].ban THEN <<"ban_chat_member">>
                               ELSE <<>>,
                     !.replies = IF tasks[i].ban THEN <<"banned">>
                                 ELSE IF idx # 0 THEN <<"warning_issued">>
                                 ELSE <<"user_not_found">>]
        /\ UNCHANGED <<groups, user_warnings, floodVars, filterVars,
                       platformVars>>

\* warn_command, lines 346-366: the warning appended and counted; the
\* reply is awaited
WarnCommandBegin == \E i \in DOMAIN tasks :
    LET warning_count == user_warnings[Warned] + 1
    IN  /\ tasks[i].handler = "warn_command" /\ tasks[i].pc = "dispatched"
        /\ user_warnings' = [user_warnings EXCEPT ![Warned] = warning_count]
        /\ tasks' = [tasks EXCEPT
                       ![i].n = warning_count,
                       ![i].pc = IF warning_count >= MAX_WARNINGS
                                 THEN "banning" ELSE "done"]
        /\ out' = [Result("warn_command", tasks[i].chat, Joiner, Warned)
                     EXCEPT !.count = warning_count, !.decision = "warn",
                            !.replies = <<"warning_issued">>]
        /\ UNCHANGED <<groups, group_users, warnings, banned, floodVars,
                       filterVars, platformVars>>

\* warn_command, lines 369-372: ban_chat_member, awaited
WarnCommandBan == \E i \in DOMAIN tasks :
    /\ tasks[i].handler = "warn_command" /\ tasks[i].pc = "banning"
    /\ banned' = banned \cup {<<tasks[i].chat, Warned>>}
    /\ tasks' = [tasks EXCEPT ![i].pc = "resetting", ![i].ban = TRUE]
    /\ out' = [Result("warn_command", tasks[i].chat, Joiner, Warned)
                 EXCEPT !.count = tasks[i].n, !.decision = "ban",
                        !.calls = <<"ban_chat_member">>,
                        !.ban = "ok", !.replies = <<"banned">>]
    /\ UNCHANGED <<groups, group_users, warnings, user_warnings, floodVars,
                   filterVars, platformVars>>

\* warn_command, line 374: the list emptied after the ban was announced
WarnCommandReset == \E i \in DOMAIN tasks :
    /\ tasks[i].handler = "warn_command" /\ tasks[i].pc = "resetting"
    /\ user_warnings' = [user_warnings EXCEPT ![Warned] = 0]
    /\ tasks' = Ended(i, FALSE)
    /\ UNCHANGED <<groups, group_users, warnings, banned, floodVars,
                   filterVars, platformVars, out>>

\* welcome_user, lines 12-47: the Group row; the GroupUser row is added to
\* the session and the welcome awaited
JoinBegin == \E i \in DOMAIN tasks, refuses \in BOOLEAN :
    LET c == tasks[i].chat
        r == Result("welcome_user", c, Joiner, Joiner)
    IN  /\ tasks[i].handler = "welcome_user" /\ tasks[i].pc = "dispatched"
        /\ IF groups[c] = NoGroup /\ refuses /\ LockedOut(i)
           THEN /\ tasks' = Ended(i, TRUE)
                /\ out' = [r EXCEPT !.error = "caught"]
                /\ UNCHANGED groups
           ELSE /\ groups' = GetOrCreateGroup(c)
                /\ tasks' = [tasks EXCEPT ![i].pc = "awaiting"]
                /\ out' = [r EXCEPT !.replies = <<"welcome">>]
        /\ UNCHANGED <<moderationVars, floodVars, filterVars, platformVars>>

\* welcome_user, line 53: the commit
JoinCommit == \E i \in DOMAIN tasks, refuses \in BOOLEAN :
    LET c == tasks[i].chat
        r == Result("welcome_user", c, Joiner, Joiner)
    IN  /\ tasks[i].handler = "welcome_user" /\ tasks[i].pc = "awaiting"
        /\ IF refuses /\ LockedOut(i)
           THEN /\ tasks' = Ended(i, TRUE)
                /\ out' = [r EXCEPT !.error = "caught"]
                /\ UNCHANGED group_users
           ELSE /\ group_users' =
                     [group_users EXCEPT
                        ![Joiner] = Append(@, NewGroupUser(c,
                                              ~groups[c][1].approval_mode))]
                /\ tasks' = Ended(i, FALSE)
                /\ out' = [r EXCEPT !.replies = <<"welcome">>]
        /\ UNCHANGED <<groups, warnings, user_warnings, banned, floodVars,
                       filterVars, platformVars>>

\* set_language after its admin check: no await up to the commit
LanguageRun == \E i \in DOMAIN tasks, refuses \in BOOLEAN :
    /\ tasks[i].handler = "set_language" /\ tasks[i].pc = "dispatched"
    /\ set_language(tasks[i].chat, Joiner, "es", {Joiner}, TRUE,
                    ~(refuses /\ LockedOut(i)), TRUE)
    /\ tasks' = Ended(i, refuses /\ LockedOut(i))
    /\ UNCHANGED <<moderationVars, floodVars, filterVars, admins>>

\* add_blocked_word after its admin check: no await up to the commit;
\* the word is sent plain or with --regex
BlockRun == \E i \in DOMAIN tasks, refuses \in BOOLEAN, regex \in BOOLEAN :
    /\ tasks[i].handler = "add_blocked_word" /\ tasks[i].pc = "dispatched"
    /\ IF refuses /\ LockedOut(i)
       THEN /\ out' = [Result("add_blocked_word", tasks[i].chat, Joiner, Joiner)
                         EXCEPT !.error = "caught"]
            /\ UNCHANGED <<groups, filterVars>>
       ELSE add_blocked_word(tasks[i].chat, Joiner, Word_BadCaps, regex,
                             {Joiner}, TRUE, TRUE)
    /\ tasks' = Ended(i, refuses /\ LockedOut(i))
    /\ UNCHANGED <<moderationVars, floodVars, platformVars>>

NextTasks ==
    \/ Dispatch
    \/ WarnUserBegin \/ WarnUserCommit
    \/ WarnCommandBegin \/ WarnCommandBan \/ WarnCommandReset
    \/ JoinBegin \/ JoinCommit
    \/ LanguageRun \/ BlockRun

SpecTasks == InitTasks /\ [][NextTasks]_vars

\* the handlers that look the Group row up and create it
Creators == TaskKinds \ {"warn_command"}

\* C13: no chat has two Group rows, and a chat has its row once a handler
\* has gone through its lookup, however the handlers of one chat interleave
C13_OneGroupPerChat ==
    \A c \in Chats :
        /\ Len(groups[c]) <= 1
        /\ \A i \in DOMAIN tasks :
              (/\ tasks[i].chat = c /\ tasks[i].handler \in Creators
               /\ tasks[i].pc # "dispatched" /\ ~tasks[i].failed)
                 => Len(groups[c]) = 1

\* two handlers were handed updates of the chat while it had no Group row,
\* and both went through
C13_Witness ==
    \E i, j \in DOMAIN tasks :
        /\ i # j /\ tasks[i].chat = NewChat /\ tasks[j].chat = NewChat
        /\ tasks[i].unknown /\ tasks[j].unknown
        /\ tasks[i].handler = "warn_user" /\ tasks[j].handler = "set_language"
        /\ tasks[i].pc = "done" /\ tasks[j].pc = "done"
        /\ ~tasks[i].failed /\ ~tasks[j].failed
        /\ Len(groups[NewChat]) = 1

\* the Warns of one path for (WarnedChat, Warned)
Warns(h) == {i \in DOMAIN tasks : tasks[i].handler = h /\ tasks[i].chat = WarnedChat}
BansOf(h) == Cardinality({i \in Warns(h) : tasks[i].ban})
Quiet == \A i \in DOMAIN tasks : tasks[i].pc = "done"

\* warn_command run n times one after the other from a list of l entries:
\* the entries left and the bans issued
RECURSIVE OneByOne(_, _)
OneByOne(l, n) ==
    IF n = 0 THEN <<l, 0>>
    ELSE IF l + 1 >= MAX_WARNINGS
         THEN <<OneByOne(0, n - 1)[1], OneByOne(0, n - 1)[2] + 1>>
         ELSE OneByOne(l + 1, n - 1)

\* C17: once N Warns of one key have all ended, the count, the Warning
\* rows and the bans are those of the N Warns run one after the other
C17_NoLostIncrement ==
    Quiet =>
        LET N == Cardinality(Warns("warn_user"))
            M == Cardinality(Warns("warn_command"))
            idx == MemberIdx(Warned, WarnedChat)
        IN  /\ group_users[Warned][idx].warnings_count = PriorWarns + N
            /\ warnings[<<WarnedChat, Warned>>] = PriorWarns + N
            /\ BansOf("warn_user") =
                 Cardinality({k \in 1 .. N : PriorWarns + k >= MAX_WARNINGS})
            /\ user_warnings[Warned] = OneByOne(PriorWarns, M)[1]
            /\ BansOf("warn_command") = OneByOne(PriorWarns, M)[2]

------------------------------------------------------------------------\* the words of the BlockedWord rows of chat c
WordsOf(c) == {blocked_words[c][i].word : i \in 1 .. Len(blocked_words[c])}

\* C36: whatever the order in which /block commands in process together
\* run, a chat holds one BlockedWord row per word at most, and a /block of
\* a word the chat has blocked already replies so and adds no row
C36_NoDuplicateWords ==
    [][/\ \A c \in Chats :
            Cardinality(WordsOf(c))' = Len(blocked_words'[c])
       /\ (/\ \E i \in DOMAIN tasks :
                /\ tasks[i].handler = "add_blocked_word"
                /\ tasks[i].pc = "dispatched"
                /\ tasks' = Ended(i, FALSE)
           /\ out'.error = "none"
           /\ out'.text \in WordsOf(out'.chat))
            => /\ out'.replies = <<"already_blocked">>
               /\ blocked_words' = blocked_words]_vars

\* two /block of one word were in process together, one plain and one
\* with --regex: the second found the row of the first
C36_Witness ==
    /\ out.handler = "add_blocked_word"
    /\ out.replies = <<"already_blocked">>
    /\ Len(blocked_words[out.chat]) = 1
    /\ out.regex # blocked_words[out.chat][1].is_regex
    /\ Len(tasks) = MaxTasks
    /\ \A i \in DOMAIN tasks : tasks[i].handler = "add_blocked_word"

-----
(* Bans: /ban, the in-memory /warn and the stored /warn of one member who *)
(* has been warned before                                                  *)

Member == <<"g1", "u1">>

InitBot ==
    /\ groups = [c \in Chats |-> IF c = Member[1] THEN <<NewGroup>> ELSE NoGroup]
    /\ \E n \in 0 .. MAX_WARNINGS - 1 :
         /\ group_users =
              [u \in Users |->
                 IF u = Member[2]
                 THEN <<[NewGroupUser(Member[1], TRUE) EXCEPT !.warnings_count = n]>>
                 ELSE <<>>]
         /\ warnings = [k \in Keys |-> IF k = Member THEN n ELSE 0]
    /\ user_warnings = [u \in Users |-> 0]
    /\ banned = {}
    /\ out = NoOut
    /\ NoFilters
    /\ NewDetector
    /\ DefaultPlatform
    /\ NoTasks

WarnMember == \E a \in Issuers, t \in {Member[2]}, admin_ids \in SUBSET Issuers,
                 banOk \in BOOLEAN, replyOk \in BOOLEAN :
    /\ TotalWarningRows < MaxBanWarns
    /\ warn_user(Member[1], a, t, admin_ids, banOk, replyOk)
    /\ UNCHANGED <<floodVars, platformVars, tasks, filterVars>>

WarnInMemory == \E a \in Issuers, t \in Users \cup {NoUser},
                   status \in MemberStatus, banOk \in BOOLEAN,
                   replyOk \in BOOLEAN, reply2Ok \in BOOLEAN :
    /\ t # NoUser => user_warnings[t] < MaxListed
    /\ warn_command(Member[1], a, t, status, banOk, replyOk, reply2Ok)
    /\ UNCHANGED <<floodVars, platformVars, tasks, filterVars>>

Ban == \E a \in Issuers, t \in Users \cup {NoUser},
          status \in MemberStatus, banOk \in BOOLEAN, replyOk \in BOOLEAN :
    ban_command(Member[1], a, t, status, banOk, replyOk) /\ UNCHANGED <<floodVars, platformVars, tasks, filterVars>>

NextBot == WarnInMemory \/ Ban \/ WarnMember

SpecBot == InitBot /\ [][NextBot]_vars

LastReply(o) == IF o.replies = <<>> THEN "none" ELSE o.replies[Len(o.replies)]

-----------------------------------------------------------------------------------------------------------------------------------------------------
(* The platform refuses calls: the commands of bot.py and the stored /warn *)
(* aimed at one member, each platform call accepted or refused.  Statuses *)
(* is what chat.get_member can answer for the sender, Sent the outcomes    *)
(* reply_text can have: {TRUE} while messages go out                       *)

Banning(Statuses, Sent) ==
    \E a \in Issuers, t \in {Member[2], NoUser}, status \in Statuses,
       banOk \in BOOLEAN, replyOk \in Sent :
        /\ ban_command(Member[1], a, t, status, banOk, replyOk)
        /\ UNCHANGED <<floodVars, platformVars, tasks, filterVars>>

Muting(Statuses, Sent) ==
    \E a \in Issuers, t \in {Member[2], NoUser}, status \in Statuses,
       muteOk \in BOOLEAN, replyOk \in Sent :
        /\ mute_command(Member[1], a, t, status, muteOk, replyOk)
        /\ UNCHANGED <<floodVars, platformVars, tasks, filterVars>>

Promoting(Statuses, Sent) ==
    \E a \in Issuers, t \in {Member[2], NoUser}, status \in Statuses,
       promoteOk \in BOOLEAN, replyOk \in Sent :
        /\ promote_command(Member[1], a, t, status, promoteOk, replyOk)
        /\ UNCHANGED <<floodVars, chat_permissions, tasks, filterVars>>

WarningInMemory(Statuses, Sent) ==
    \E a \in Issuers, t \in {Member[2], NoUser}, status \in Statuses,
       banOk \in BOOLEAN, replyOk \in Sent, reply2Ok \in Sent :
        /\ t # NoUser => user_warnings[t] < MaxListed
        /\ warn_command(Member[1], a, t, status, banOk, replyOk, reply2Ok)
        /\ UNCHANGED <<floodVars, platformVars, tasks, filterVars>>

WarningStored(Sent) ==
    \E a \in Issuers, admin_ids \in SUBSET Issuers,
       banOk \in BOOLEAN, replyOk \in Sent :
        /\ TotalWarningRows < MaxBanWarns
        /\ warn_user(Member[1], a, Member[2], admin_ids, banOk, replyOk)
        /\ UNCHANGED <<floodVars, platformVars, tasks, filterVars>>

NextRefusal ==
    \/ Banning(MemberStatus, {TRUE}) \/ Muting(MemberStatus, {TRUE}) \/ Promoting(MemberStatus, {TRUE})
    \/ WarningInMemory(MemberStatus, {TRUE}) \/ WarningStored({TRUE})

SpecRefusal == InitBot /\ [][NextRefusal]_vars

\* the platform refused the ban, restrict or promote call of the event
Refusal(o) == "refused" \in {o.ban, o.mute, o.promote}

FailureReplies == {"ban_failed", "mute_failed", "promote_failed"}
SuccessReplies == {"banned", "muted", "promoted"}

RepliesOf(o) == {o.replies[i] : i \in 1 .. Len(o.replies)}

\* C31: when the platform refuses the ban, mute or promote of an event -
\* of a command or of the auto-ban at max warnings - the chat gets a
\* failure reply and no success reply, and nothing leaves the handler
C31_RefusalSurfaced ==
    Refusal(out) =>
        /\ RepliesOf(out) \cap FailureReplies # {}
        /\ RepliesOf(out) \cap SuccessReplies = {}
        /\ out.error # "escaped"

-----------------------------------------------------------------------------
(* The same commands with replies that can fail, and beside them the      *)
(* handlers that delete messages, mute on a flood and close the chat      *)

\* the sender of a command is an administrator
Admitted == {"administrator"}

\* texts with a bad word, with a link, with neither
Posts == {Text_Both, Text_UrlAndWord, Text_Hello}

Moderating(Statuses, Sent) ==
    \E text \in Posts, status \in Statuses, deleteOk \in BOOLEAN,
       replyOk \in Sent, noticeOk \in BOOLEAN :
        /\ message_handler(Member[1], Member[2], text, status, deleteOk,
                           replyOk, noticeOk)
        /\ UNCHANGED <<moderationVars, floodVars, platformVars, tasks>>

Flooding == \E muteOk \in BOOLEAN, replyOk \in BOOLEAN :
    /\ CountOf(Member[2]) < MaxMsgs
    /\ check_flood(Member[1], Member[2], muteOk, replyOk)
    /\ UNCHANGED <<groups, moderationVars, filterVars, platformVars, tasks,
                   now, seen>>

Closing == \E a \in Issuers, admin_ids \in SUBSET Issuers,
              adminsOk \in BOOLEAN, setOk \in BOOLEAN, replyOk \in BOOLEAN :
    /\ close_group(Member[1], a, admin_ids, adminsOk, setOk, replyOk)
    /\ UNCHANGED <<moderationVars, floodVars, filterVars, admins, tasks>>

\* the member was warned MAX_WARNINGS - 1 times and has sent
\* FLOOD_LIMIT - 1 messages in the second the detector was made
InitPlatform ==
    /\ groups = [c \in Chats |-> IF c = Member[1] THEN <<NewGroup>> ELSE NoGroup]
    /\ group_users =
         [u \in Users |->
            IF u = Member[2]
            THEN <<[NewGroupUser(Member[1], TRUE) EXCEPT
                      !.warnings_count = MAX_WARNINGS - 1]>>
            ELSE <<>>]
    /\ warnings = [k \in Keys |-> IF k = Member THEN MAX_WARNINGS - 1 ELSE 0]
    /\ user_warnings = [u \in Users |-> 0]
    /\ banned = {}
    /\ out = NoOut
    /\ NoFilters
    /\ now = 0
    /\ last_reset_time = 0
    /\ user_message_count =
         [u \in Users |->
            IF u = Member[2]
            THEN <<[count |-> FLOOD_LIMIT - 1, first_message_time |-> 0]>>
            ELSE <<>>]
    /\ seen = NothingSeen
    /\ DefaultPlatform
    /\ NoTasks

NextPlatform ==
    \/ Banning(Admitted, BOOLEAN) \/ Muting(Admitted, BOOLEAN)
    \/ WarningStored(BOOLEAN)
    \/ Moderating({"member"}, BOOLEAN) \/ Flooding \/ Closing

SpecPlatform == InitPlatform /\ [][NextPlatform]_vars

\* how often the event made the call
Attempts(o, call) == Cardinality({i \in 1 .. Len(o.calls) : o.calls[i] = call})

PlatformCalls ==
    {"ban_chat_member", "restrict_chat_member", "promote_chat_member",
     "delete_message", "set_chat_permissions", "delete_notice"}

\* C32: handling one event makes each call that changes the platform -
\* ban, restrict, promote, deletion of the message, set permissions - at
\* most once, accepted or refused; the one further call is the deletion of
\* the notice, once as well
C32_NoRetry ==
    /\ \A call \in PlatformCalls : Attempts(out, call) <= 1
    /\ RepliesOf(out) \cap PlatformCalls = {}
    /\ \A i \in 1 .. Len(out.calls) : out.calls[i] \in PlatformCalls
    /\ Len(out.calls) > 1 => out.calls = <<"delete_message", "delete_notice">>

\* /ban was refused by the platform: one call, and the failure reply
C32_Witness ==
    /\ out.handler = "ban_command"
    /\ out.ban = "refused"
    /\ out.calls = <<"ban_chat_member">>
    /\ out.replies = <<"ban_failed">>

\* C33: when the notice of a deletion is gone by the time it is deleted,
\* 5 seconds after it was sent, the handler ends as it does when the notice
\* is still there: nothing raised or logged, no state changed, the message
\* deleted and the notice sent
C33_GoneNoticeNoOp ==
    [][out'.notice = "gone"
         => /\ out'.handler = "message_handler"
            /\ out'.error = "none"
            /\ out'.calls = <<"delete_message", "delete_notice">>
            /\ Len(out'.replies) = 1
            /\ UNCHANGED <<groups, moderationVars, floodVars, filterVars,
                           platformVars, tasks>>]_vars

\* a message with a link was deleted and its notice was gone already
C33_Witness ==
    /\ out.handler = "message_handler"
    /\ out.notice = "gone"
    /\ out.reason = "banned_link"
    /\ out.replies = <<"links_not_allowed">>

\* C34: every ban and every mute the bot asks the platform for - /ban,
\* /mute, the flood mute, the ban at max warnings - is sent with the expiry
\* now + the configured duration
C34_ExpiryCarried ==
    /\ "ban_chat_member" \in {out.calls[i] : i \in 1 .. Len(out.calls)}
         => out.until = "now+BAN_DURATION"
    /\ "restrict_chat_member" \in {out.calls[i] : i \in 1 .. Len(out.calls)}
         => out.until = "now+MUTE_DURATION"

-----------------------------------------------------------------------------
(* The lookup of the sender fails: the handlers of bot.py that ask        *)
(* is_user_admin, for every answer chat.get_member can give               *)

Paneling == \E a \in Issuers, status \in MemberStatus, replyOk \in BOOLEAN :
    /\ admin_command(Member[1], a, status, replyOk)
    /\ UNCHANGED <<floodVars, platformVars, tasks, filterVars>>

NextLookup ==
    \/ Banning(MemberStatus, BOOLEAN) \/ Muting(MemberStatus, BOOLEAN)
    \/ Promoting(MemberStatus, BOOLEAN)
    \/ WarningInMemory(MemberStatus, BOOLEAN)
    \/ Moderating(MemberStatus, BOOLEAN) \/ Paneling

SpecLookup == InitPlatform /\ [][NextLookup]_vars

\* the text breaks a rule of the auto-moderation
BreaksRule(text) ==
    /\ AUTO_MODERATION_ENABLED
    /\ \/ FILTER_LINKS /\ contains_links(text)
       \/ FILTER_BAD_WORDS /\ contains_bad_words(text)

\* C37: when the lookup of the sender's status raises, /ban, /mute,
\* /promote, /warn and /admin are rejected - no platform call, no state
\* changed, no reply but the rejection - and the auto-moderation filters
\* the sender's message as it filters a non-admin's
C37_LookupFailsClosed ==
    [][out'.status = "lookup_failed"
         => IF out'.handler = "message_handler"
            THEN /\ ~out'.admin
                 /\ out'.decision = "delete" <=> BreaksRule(out'.text)
            ELSE /\ out'.handler \in OfBot \cup {"admin_command"}
                 /\ out'.replies \in {<<"need_admin">>, <<>>}
                 /\ out'.calls = <<>>
                 /\ out'.decision = "none"
                 /\ ModerationState' = ModerationState]_vars

\* /ban from a sender whose lookup failed, aimed at a member: rejected
C37_Witness ==
    /\ out.handler = "ban_command"
    /\ out.status = "lookup_failed"
    /\ out.target = Member[2]
    /\ out.replies = <<"need_admin">>
    /\ out.ban = "none"

====
